---- MODULE Spec2Model ----
(***************************************************************************)
(* BarePD: the virtual file table (pd_fileio.cpp), the I2S/PWM audio       *)
(* bridge (pdsounddevice.cpp) and the FUDI line parser (pd_fudi.cpp).      *)
(*                                                                         *)
(* Each component has its own specification over the shared variables:     *)
(*   SpecFile   the file table over a small SD card, few sessions          *)
(*   SpecFileFaults  the file table over a filesystem whose calls fail     *)
(*   SpecTable  the file table filled to MAX_OPEN_FILES                    *)
(*   SpecAudio  the refill path of the sound devices                       *)
(*   SpecFudi   the parser fed byte by byte                                *)
(*   SpecFudiLong  the parser fed long unterminated streams                *)
(*   SpecFudiCorpus  the parser fed the protocol's example messages        *)
(*   SpecFudiBuffer  the parser fed whole buffers                          *)
(*   SpecFudiMany  the parser fed messages of 32 tokens and more           *)
(*   SpecFudiSend  the encoders, and their text fed back to the parser     *)
(*   SpecSamples  the conversion of engine samples for I2S and PWM         *)
(*   SpecFilePaths  the file table over sub-folders and long paths         *)
(*   SpecLoops  the loops of FillQueue, Seek and Open, one pass per step    *)
(***************************************************************************)
EXTENDS Integers, Sequences, FiniteSets, TLC

VARIABLES
    s_FileTable,   \* pd_fileio.cpp:44   slot -> FileEntry
    fsFiles,       \* the SD card: normalized path -> file content (bytes)
    fsOpen,        \* the backing filesystem's open handles: handle -> NoFile or [path, pos]
    lastCall,      \* the last file call: what the caller saw of it
    loop,          \* the loop a call is in when it is run step by step, and its counters
    m_nSampleRate, \* pdsounddevice.cpp:167
    nBlockSize,    \* the engine's tick length in frames, libpd_blocksize()
    devActive,     \* m_pDevice->IsActive()
    queueAvail,    \* m_pDevice->GetQueueFramesAvail(): frames buffered in the queue
    lastRefill,    \* the last audio pass: its chunks, one record per engine call
    pwmRange,      \* <<GetRangeMin(), GetRangeMax()>> of the PWM device
    lastSample,    \* the last sample converted: the engine's value, the integer written
    m_Buffer,      \* pd_fudi.h:65   the bytes accumulated, m_Buffer[0 .. m_nBufferPos-1]
    m_nMessagesReceived,   \* pd_fudi.h:72
    m_nParseErrors,        \* pd_fudi.h:73
    lastByte,      \* the last ProcessByte: the byte, the result, the engine calls
    lastBuffer,    \* the last ProcessBuffer: the bytes, the result, the engine calls
    m_pOutputCallback,     \* pd_fudi.h:69   TRUE when a callback is registered
    lastSent       \* the last Send*: its arguments and the texts handed to the callback

fileVars == <<s_FileTable, fsFiles, fsOpen, lastCall, loop>>

audioVars == <<m_nSampleRate, nBlockSize, devActive, queueAvail, lastRefill,
               pwmRange, lastSample>>

fudiVars == <<m_Buffer, m_nMessagesReceived, m_nParseErrors, lastByte, lastBuffer,
              m_pOutputCallback, lastSent>>

vars == <<s_FileTable, fsFiles, fsOpen, lastCall, loop,
          m_nSampleRate, nBlockSize, devActive, queueAvail, lastRefill,
          pwmRange, lastSample,
          m_Buffer, m_nMessagesReceived, m_nParseErrors, lastByte, lastBuffer,
          m_pOutputCallback, lastSent>>

-----------------------------------------------------------------------------
(* Helpers *)

Min(a, b) == IF a < b THEN a ELSE b

Max(a, b) == IF a > b THEN a ELSE b

\* A C unsigned (32 bit) value is held as the integer with the same bit
\* pattern read as two's complement: 0xFFFFFFFF is -1.  (int)u and
\* (unsigned)i are then the identity, and the operators below are the
\* unsigned comparison and the wrapping sum and difference.
MaxInt == 2147483647

MinInt == -2147483647 - 1

ULt(a, b) == IF (a >= 0) <=> (b >= 0) THEN a < b ELSE a >= 0

UGt(a, b) == ULt(b, a)

UAdd(a, b) ==
    IF a >= 0 /\ b >= 0 /\ a > MaxInt - b THEN (a - MaxInt - 1) + (b - MaxInt - 1)
    ELSE IF a < 0 /\ b < 0 /\ a < MinInt - b THEN (a + MaxInt + 1) + (b + MaxInt + 1)
    ELSE a + b

USub(a, b) == IF b = MinInt THEN UAdd(a, MinInt) ELSE UAdd(a, 0 - b)

Take(s, n) == SubSeq(s, 1, Min(n, Len(s)))

Drop(s, n) == SubSeq(s, n + 1, Len(s))

-----------------------------------------------------------------------------
(* Program constants of pd_fileio.cpp *)

MAX_OPEN_FILES == 16

MAX_PATH_LEN == 256

FD_OFFSET == 10

\* sizeof(skipBuf), sizeof(tempBuf)
SKIP_BUF_SIZE == 512

\* circle: FS_ERROR (0xFFFFFFFF), the error sentinel of FileRead
FS_ERROR == -1

Slots == 0 .. (MAX_OPEN_FILES - 1)

\* backing handles: one per slot and one for the size-measuring pass
FsHandles == 1 .. (MAX_OPEN_FILES + 1)

NoFile == [path |-> <<>>, pos |-> -1]

\* a null char pointer
NullPath == <<"NULL">>

EmptyEntry == [hFile |-> 0, nSize |-> 0, nPosition |-> 0, szPath |-> <<>>, bValid |-> FALSE]

\* no call is inside a loop; done: the loop that ended last
NoLoop(done, n0, iter) ==
    [pc |-> "idle", n |-> 0, n0 |-> n0, iter |-> iter, h |-> 0, slot |-> -1, done |-> done]

-----------------------------------------------------------------------------
(* The backing filesystem (CFATFileSystem): open by path, sequential read, *)
(* close.  A result carries the new handle table and the calls made.       *)

FsFreeHandle(fo) ==
    IF \E h \in FsHandles : fo[h] = NoFile
    THEN CHOOSE h \in FsHandles : fo[h] = NoFile /\ \A g \in FsHandles : g < h => fo[g] # NoFile
    ELSE 0

\* fail: the filesystem refuses the open (I/O error)
FileOpen(fo, name, fail) ==
    LET h == FsFreeHandle(fo) IN
    IF fail \/ name \notin DOMAIN fsFiles \/ h = 0
    THEN [fo |-> fo, h |-> 0]
    ELSE [fo |-> [fo EXCEPT ![h] = [path |-> name, pos |-> 0]], h |-> h]

\* err: the read returns FS_ERROR
FileRead(fo, h, count, err) ==
    IF err \/ h \notin FsHandles
    THEN [fo |-> fo, n |-> FS_ERROR, data |-> <<>>]
    ELSE IF fo[h] = NoFile
    THEN [fo |-> fo, n |-> FS_ERROR, data |-> <<>>]
    ELSE LET f == fo[h]
             content == fsFiles[f.path]
             n == Min(count, Len(content) - f.pos)
         IN [fo |-> [fo EXCEPT ![h].pos = @ + n],
             n |-> n,
             data |-> SubSeq(content, f.pos + 1, f.pos + n)]

\* a filesystem whose close releases every handle
FileClose_All(fo, h) ==
    IF h \in FsHandles THEN [g \in FsHandles |-> NoFile] ELSE fo

FileClose(fo, h) ==
    IF h \in FsHandles THEN [fo EXCEPT ![h] = NoFile] ELSE fo

-----------------------------------------------------------------------------
(* pd_fileio.cpp *)

\* strip one leading "./", then every leading "/"
RECURSIVE SkipSlashes(_)
SkipSlashes(p) ==
    IF Len(p) > 0 /\ p[1] = "/" THEN SkipSlashes(Tail(p)) ELSE p

\* a NormalizePath that skips one leading "/" only
NormalizePath_OneSlash(path) ==
    IF path = NullPath THEN NullPath
    ELSE LET p1 == IF Len(path) >= 2 /\ path[1] = "." /\ path[2] = "/"
                   THEN Drop(path, 2) ELSE path
         IN IF Len(p1) > 0 /\ p1[1] = "/" THEN Tail(p1) ELSE p1

NormalizePath(path) ==
    IF path = NullPath THEN NullPath
    ELSE LET p1 == IF Len(path) >= 2 /\ path[1] = "." /\ path[2] = "/"
                   THEN Drop(path, 2) ELSE path
         IN SkipSlashes(p1)

\* as FindFreeSlot, with slot 0 handed out when no slot is free
FindFreeSlot_Reuse(tab) ==
    IF \E i \in Slots : ~tab[i].bValid
    THEN CHOOSE i \in Slots : ~tab[i].bValid /\ \A j \in Slots : j < i => tab[j].bValid
    ELSE 0

FindFreeSlot(tab) ==
    IF \E i \in Slots : ~tab[i].bValid
    THEN CHOOSE i \in Slots : ~tab[i].bValid /\ \A j \in Slots : j < i => tab[j].bValid
    ELSE -1

\* the discard-read loop: read chunks of at most SKIP_BUF_SIZE until nToSkip
\* is consumed, or a read returns 0 or FS_ERROR.  err: the first read fails.
RECURSIVE SkipLoop(_, _, _, _, _)
SkipLoop(fo, h, nToSkip, err, calls) ==
    IF nToSkip = 0 THEN [fo |-> fo, left |-> 0, calls |-> calls]
    ELSE LET nChunk == IF UGt(nToSkip, SKIP_BUF_SIZE) THEN SKIP_BUF_SIZE ELSE nToSkip
             r == FileRead(fo, h, nChunk, err)
             c == Append(calls, <<"FileRead", h, nChunk, r.n>>)
         IN IF r.n = 0 \/ r.n = FS_ERROR
            THEN [fo |-> r.fo, left |-> nToSkip, calls |-> c]
            ELSE SkipLoop(r.fo, h, USub(nToSkip, r.n), FALSE, c)

\* flt.open: which FileOpen of the call fails (0 = none); flt.read: the first
\* FileRead of the call returns FS_ERROR
NoFault == [open |-> 0, read |-> FALSE]

\* a ReopenAndSeek that opens the file again without closing the handle held
ReopenAndSeek_NoClose(e, fo, nTargetPos, flt) ==
    LET o == FileOpen(fo, e.szPath, flt.open = 1)
        c2 == << <<"FileOpen", e.szPath, o.h>> >>
    IN IF o.h = 0
       THEN [ok |-> FALSE, e |-> [e EXCEPT !.hFile = 0], fo |-> o.fo, calls |-> c2]
       ELSE [ok |-> TRUE,
             e |-> [e EXCEPT !.hFile = o.h, !.nPosition = nTargetPos],
             fo |-> SkipLoop(o.fo, o.h, nTargetPos, flt.read, c2).fo,
             calls |-> SkipLoop(o.fo, o.h, nTargetPos, flt.read, c2).calls]

\* as ReopenAndSeek, with the discard-reads after the reopen left out
ReopenAndSeek_NoSkip(e, fo, nTargetPos, flt) ==
    LET fo1 == IF e.hFile # 0 THEN FileClose(fo, e.hFile) ELSE fo
        o == FileOpen(fo1, e.szPath, flt.open = 1)
    IN IF o.h = 0
       THEN [ok |-> FALSE, e |-> [e EXCEPT !.hFile = 0], fo |-> o.fo, calls |-> <<>>]
       ELSE [ok |-> TRUE,
             e |-> [e EXCEPT !.hFile = o.h, !.nPosition = nTargetPos],
             fo |-> o.fo, calls |-> <<>>]

ReopenAndSeek(e, fo, nTargetPos, flt) ==
    LET fo1 == IF e.hFile # 0 THEN FileClose(fo, e.hFile) ELSE fo
        c1 == IF e.hFile # 0 THEN << <<"FileClose", e.hFile>> >> ELSE <<>>
        o == FileOpen(fo1, e.szPath, flt.open = 1)
        c2 == Append(c1, <<"FileOpen", e.szPath, o.h>>)
    IN IF o.h = 0
       THEN [ok |-> FALSE, e |-> [e EXCEPT !.hFile = 0], fo |-> o.fo, calls |-> c2]
       ELSE LET s == SkipLoop(o.fo, o.h, nTargetPos, flt.read, c2)
            IN [ok |-> TRUE,
                e |-> [e EXCEPT !.hFile = o.h, !.nPosition = nTargetPos],
                fo |-> s.fo, calls |-> s.calls]

\* the size-measuring pass of barepd_open: read to exhaustion in chunks
RECURSIVE MeasureSize(_, _, _, _, _)
MeasureSize(fo, h, nSize, err, calls) ==
    LET r == FileRead(fo, h, SKIP_BUF_SIZE, err)
        c == Append(calls, <<"FileRead", h, SKIP_BUF_SIZE, r.n>>)
    IN IF UGt(r.n, 0) /\ r.n # FS_ERROR
       THEN MeasureSize(r.fo, h, UAdd(nSize, r.n), FALSE, c)
       ELSE [fo |-> r.fo, nSize |-> nSize, calls |-> c]

\* strncpy(pEntry->szPath, pName, MAX_PATH_LEN - 1) and the terminating NUL
StorePath(pName) == Take(pName, MAX_PATH_LEN - 1)

\* A result of a file call: the new table and handle table, the value
\* returned, the bytes delivered to the caller, the backend calls made.
Result(tab, fo, ret, data, calls) ==
    [tab |-> tab, fo |-> fo, ret |-> ret, data |-> data, calls |-> calls]

\* a barepd_open that marks the slot valid when it stores the path
barepd_open_EarlyValid(tab, fo, path, oflag, flt) ==
    IF path = NullPath \/ NormalizePath(path) = <<>> \/ FindFreeSlot(tab) < 0
    THEN Result(tab, fo, -1, <<>>, <<>>)
    ELSE
    LET pName == NormalizePath(path)
        slot == FindFreeSlot(tab)
        tab1 == [tab EXCEPT ![slot].szPath = StorePath(pName), ![slot].bValid = TRUE]
        o1 == FileOpen(fo, pName, flt.open = 1)
        c1 == << <<"FileOpen", pName, o1.h>> >>
    IN IF o1.h = 0 THEN Result(tab1, o1.fo, -1, <<>>, c1)
    ELSE
    LET m == MeasureSize(o1.fo, o1.h, 0, flt.read, c1)
        o2 == FileOpen(FileClose(m.fo, o1.h), pName, flt.open = 2)
        c3 == m.calls \o << <<"FileClose", o1.h>>, <<"FileOpen", pName, o2.h>> >>
    IN IF o2.h = 0 THEN Result(tab1, o2.fo, -1, <<>>, c3)
       ELSE Result([tab1 EXCEPT ![slot].hFile = o2.h, ![slot].nSize = m.nSize,
                                ![slot].nPosition = 0],
                   o2.fo, slot + FD_OFFSET, <<>>, c3)

\* a barepd_open that keeps the handle it measured the size with
barepd_open_KeepHandle(tab, fo, path, oflag, flt) ==
    IF path = NullPath \/ NormalizePath(path) = <<>> \/ FindFreeSlot(tab) < 0
    THEN Result(tab, fo, -1, <<>>, <<>>)
    ELSE
    LET pName == NormalizePath(path)
        slot == FindFreeSlot(tab)
        tab1 == [tab EXCEPT ![slot].szPath = StorePath(pName)]
        o1 == FileOpen(fo, pName, flt.open = 1)
        c1 == << <<"FileOpen", pName, o1.h>> >>
    IN IF o1.h = 0 THEN Result(tab1, o1.fo, -1, <<>>, c1)
    ELSE
    LET m == MeasureSize(o1.fo, o1.h, 0, flt.read, c1)
    IN Result([tab1 EXCEPT ![slot].hFile = o1.h,
                           ![slot].nSize = m.nSize,
                           ![slot].nPosition = 0,
                           ![slot].bValid = TRUE],
              m.fo, slot + FD_OFFSET, <<>>, m.calls)

barepd_open(tab, fo, path, oflag, flt) ==
    IF path = NullPath THEN Result(tab, fo, -1, <<>>, <<>>)
    ELSE
    LET pName == NormalizePath(path) IN
    IF pName = <<>> THEN Result(tab, fo, -1, <<>>, <<>>)
    ELSE
    LET slot == FindFreeSlot(tab) IN
    IF slot < 0 THEN Result(tab, fo, -1, <<>>, <<>>)
    ELSE
    LET tab1 == [tab EXCEPT ![slot].szPath = StorePath(pName)]
        o1 == FileOpen(fo, pName, flt.open = 1)
        c1 == << <<"FileOpen", pName, o1.h>> >>
    IN IF o1.h = 0 THEN Result(tab1, o1.fo, -1, <<>>, c1)
    ELSE
    LET m == MeasureSize(o1.fo, o1.h, 0, flt.read, c1)
        fo2 == FileClose(m.fo, o1.h)
        c2 == Append(m.calls, <<"FileClose", o1.h>>)
        o2 == FileOpen(fo2, pName, flt.open = 2)
        c3 == Append(c2, <<"FileOpen", pName, o2.h>>)
    IN IF o2.h = 0 THEN Result(tab1, o2.fo, -1, <<>>, c3)
       ELSE Result([tab1 EXCEPT ![slot].hFile = o2.h,
                                ![slot].nSize = m.nSize,
                                ![slot].nPosition = 0,
                                ![slot].bValid = TRUE],
                   o2.fo, slot + FD_OFFSET, <<>>, c3)

\* barepd_fopen: null unless the mode starts with r or R; else barepd_open
\* for reading, and the handle as the FILE pointer (0: nullptr)
barepd_fopen(tab, fo, filename, mode, flt) ==
    IF mode = NullPath \/ mode = <<>> \/ Head(mode) \notin {"r", "R"}
    THEN Result(tab, fo, 0, <<>>, <<>>)
    ELSE LET r == barepd_open(tab, fo, filename, 0, flt)
         IN IF r.ret < 0 THEN Result(r.tab, r.fo, 0, <<>>, r.calls) ELSE r

\* as BadHandle, without the test that the slot is open
BadHandle_AnySlot(tab, fd) ==
    fd - FD_OFFSET < 0 \/ fd - FD_OFFSET >= MAX_OPEN_FILES

\* slot < 0 || slot >= MAX_OPEN_FILES || !s_FileTable[slot].bValid
BadHandle(tab, fd) ==
    LET slot == fd - FD_OFFSET IN
    slot < 0 \/ slot >= MAX_OPEN_FILES \/ ~tab[slot].bValid

\* as pd_fileio_close, with the backing handle left open
pd_fileio_close_Leak(tab, fo, fd) ==
    IF BadHandle(tab, fd) THEN Result(tab, fo, -1, <<>>, <<>>)
    ELSE Result([tab EXCEPT ![fd - FD_OFFSET].hFile = 0, ![fd - FD_OFFSET].bValid = FALSE],
                fo, 0, <<>>, <<>>)

pd_fileio_close(tab, fo, fd) ==
    IF BadHandle(tab, fd) THEN Result(tab, fo, -1, <<>>, <<>>)
    ELSE LET slot == fd - FD_OFFSET
             e == tab[slot]
         IN Result([tab EXCEPT ![slot].hFile = 0, ![slot].bValid = FALSE],
                   IF e.hFile # 0 THEN FileClose(fo, e.hFile) ELSE fo,
                   0, <<>>,
                   IF e.hFile # 0 THEN << <<"FileClose", e.hFile>> >> ELSE <<>>)

\* as pd_fileio_read, with the offset advanced by the count requested
\* instead of the count read
pd_fileio_read_ByCount(tab, fo, fd, bufNull, count, flt) ==
    IF BadHandle(tab, fd) THEN Result(tab, fo, -1, <<>>, <<>>)
    ELSE IF bufNull \/ count = 0 THEN Result(tab, fo, -1, <<>>, <<>>)
    ELSE LET slot == fd - FD_OFFSET
             r == FileRead(fo, tab[slot].hFile, count, flt.read)
         IN IF r.n = 0 \/ r.n = FS_ERROR
            THEN Result(tab, r.fo, 0, <<>>, <<>>)
            ELSE Result([tab EXCEPT ![slot].nPosition = UAdd(@, count)],
                        r.fo, r.n, r.data, <<>>)

\* as pd_fileio_read, with FS_ERROR not told from a byte count
pd_fileio_read_ErrorAsCount(tab, fo, fd, bufNull, count, flt) ==
    IF BadHandle(tab, fd) THEN Result(tab, fo, -1, <<>>, <<>>)
    ELSE IF bufNull \/ count = 0 THEN Result(tab, fo, -1, <<>>, <<>>)
    ELSE LET r == FileRead(fo, tab[fd - FD_OFFSET].hFile, count, flt.read)
         IN IF r.n = 0
            THEN Result(tab, r.fo, 0, <<>>, <<>>)
            ELSE Result([tab EXCEPT ![fd - FD_OFFSET].nPosition = UAdd(@, r.n)],
                        r.fo, r.n, r.data, <<>>)

\* bufNull: the caller passes a null buffer
pd_fileio_read(tab, fo, fd, bufNull, count, flt) ==
    IF BadHandle(tab, fd) THEN Result(tab, fo, -1, <<>>, <<>>)
    ELSE IF bufNull \/ count = 0 THEN Result(tab, fo, -1, <<>>, <<>>)
    ELSE LET slot == fd - FD_OFFSET
             e == tab[slot]
             r == FileRead(fo, e.hFile, count, flt.read)
             c == << <<"FileRead", e.hFile, count, r.n>> >>
         IN IF r.n = 0 \/ r.n = FS_ERROR
            THEN Result(tab, r.fo, 0, <<>>, c)
            ELSE Result([tab EXCEPT ![slot].nPosition = UAdd(@, r.n)],
                        r.fo, r.n, r.data, c)

\* the target of a seek before clamping (unsigned arithmetic)
SeekTarget(e, offset, whence) ==
    CASE whence = 0 -> offset
      [] whence = 1 -> UAdd(e.nPosition, offset)
      [] whence = 2 -> UAdd(e.nSize, offset)

\* if (nNewPos > pEntry->nSize) nNewPos = pEntry->nSize
ClampPos(nNewPos, nSize) == IF UGt(nNewPos, nSize) THEN nSize ELSE nNewPos

\* a pd_fileio_lseek that reopens the file whenever the offset moves
pd_fileio_lseek_AlwaysReopen(tab, fo, fd, offset, whence, flt) ==
    IF BadHandle(tab, fd) THEN Result(tab, fo, -1, <<>>, <<>>)
    ELSE IF whence \notin {0, 1, 2} THEN Result(tab, fo, -1, <<>>, <<>>)
    ELSE
    LET slot == fd - FD_OFFSET
        e == tab[slot]
        nNewPos == ClampPos(SeekTarget(e, offset, whence), e.nSize)
    IN IF nNewPos # e.nPosition
       THEN LET r == ReopenAndSeek(e, fo, nNewPos, flt)
            IN IF ~r.ok
               THEN Result([tab EXCEPT ![slot] = r.e], r.fo, -1, <<>>, r.calls)
               ELSE Result([tab EXCEPT ![slot] = [r.e EXCEPT !.nPosition = nNewPos]],
                           r.fo, nNewPos, <<>>, r.calls)
       ELSE Result(tab, fo, nNewPos, <<>>, <<>>)

pd_fileio_lseek(tab, fo, fd, offset, whence, flt) ==
    IF BadHandle(tab, fd) THEN Result(tab, fo, -1, <<>>, <<>>)
    ELSE IF whence \notin {0, 1, 2} THEN Result(tab, fo, -1, <<>>, <<>>)
    ELSE
    LET slot == fd - FD_OFFSET
        e == tab[slot]
        nNewPos == ClampPos(SeekTarget(e, offset, whence), e.nSize)
    IN IF ULt(nNewPos, e.nPosition)
       THEN LET r == ReopenAndSeek(e, fo, nNewPos, flt)
            IN IF ~r.ok
               THEN Result([tab EXCEPT ![slot] = r.e], r.fo, -1, <<>>, r.calls)
               ELSE Result([tab EXCEPT ![slot] = [r.e EXCEPT !.nPosition = nNewPos]],
                           r.fo, nNewPos, <<>>, r.calls)
       ELSE IF UGt(nNewPos, e.nPosition)
       THEN LET s == SkipLoop(fo, e.hFile, USub(nNewPos, e.nPosition), flt.read, <<>>)
            IN Result([tab EXCEPT ![slot].nPosition = nNewPos],
                      s.fo, nNewPos, <<>>, s.calls)
       ELSE Result(tab, fo, nNewPos, <<>>, <<>>)

\* a pd_fileio_stat that leaves the probing handle open
pd_fileio_stat_Leak(tab, fo, path, flt) ==
    IF path = NullPath THEN Result(tab, fo, -1, <<>>, <<>>)
    ELSE LET pName == NormalizePath(path)
             o == FileOpen(fo, pName, flt.open = 1)
         IN Result(tab, o.fo, IF o.h = 0 THEN -1 ELSE 0, <<>>,
                   << <<"FileOpen", pName, o.h>> >>)

\* pd_fileio_stat: open the file to see that it exists, close it again
pd_fileio_stat(tab, fo, path, flt) ==
    IF path = NullPath THEN Result(tab, fo, -1, <<>>, <<>>)
    ELSE LET pName == NormalizePath(path)
             o == FileOpen(fo, pName, flt.open = 1)
             c == << <<"FileOpen", pName, o.h>> >>
         IN IF o.h = 0 THEN Result(tab, o.fo, -1, <<>>, c)
            ELSE Result(tab, FileClose(o.fo, o.h), 0, <<>>,
                        Append(c, <<"FileClose", o.h>>))

-----------------------------------------------------------------------------
(* pdsounddevice.cpp *)

DEFAULT_SAMPLE_RATE == 48000

I2S_CHUNK_SIZE == 256

I2S_QUEUE_SIZE_MS == 50

\* m_nOutChannels: 2 for I2S (SetWriteFormat(SoundFormatSigned16, 2)) and PWM
OutChannels == 2

\* sizeof(s16)
BytesPerSample == 2

\* unsigned nFramesPerWrite = 256
FramesPerWrite == 256

\* pdsounddevice.h: the frames the PWM scratch buffers are allocated for
DEFAULT_CHUNK_SIZE == 384 * 4

\* new float[m_nChunkSize * m_nOutChannels], new s16[...]: the samples the
\* I2S output scratch buffer and staging buffer hold
I2SBufferSamples == I2S_CHUNK_SIZE * OutChannels

\* new float[nBufferFrames * m_nOutChannels]: the samples the PWM output
\* scratch buffer holds
PWMBufferSamples == DEFAULT_CHUNK_SIZE * OutChannels

\* m_pDevice->GetQueueSizeFrames() of a queue allocated for I2S_QUEUE_SIZE_MS
QueueSizeFrames(rate) == (rate * I2S_QUEUE_SIZE_MS) \div 1000

\* the number of engine ticks for a chunk: nFrames / nBlockSize, 1 if that is 0
TicksFor(nFrames, bs) ==
    LET nTicks == nFrames \div bs IN IF nTicks = 0 THEN 1 ELSE nTicks

\* m_pDevice->Write(buffer, nBytes): the bytes the queue takes.  rejected:
\* the queue takes none; otherwise it takes what it has room for.
QueueWrite(avail, qSize, nBytes, rejected) ==
    IF rejected THEN 0
    ELSE Min(nBytes, (qSize - avail) * OutChannels * BytesPerSample)

\* one chunk of FillQueue: the frames requested of it, the ticks run, the
\* samples the engine filled, the samples converted and handed to the queue,
\* the bytes written and the bytes the queue took
I2SChunk(nFrames, bs, avail, qSize, rejected) ==
    LET nWriteFrames == IF ULt(nFrames, FramesPerWrite) THEN nFrames ELSE FramesPerWrite
        nSamples == nWriteFrames * OutChannels
        nTicks == TicksFor(nWriteFrames, bs)
        nBytes == nSamples * BytesPerSample
    IN [req |-> nWriteFrames,
        nTicks |-> nTicks,
        nProduced |-> nTicks * bs * OutChannels,
        nSamples |-> nSamples,
        nSilence |-> 0,
        nBytes |-> nBytes,
        nAccepted |-> QueueWrite(avail, qSize, nBytes, rejected)]

\* the loop of FillQueue.  rejAt: the chunk whose write the queue rejects
\* (0: none).  The result is the chunks in order and the frames buffered.
RECURSIVE FillLoop(_, _, _, _, _, _)
FillLoop(nFrames, bs, avail, qSize, rejAt, chunks) ==
    IF ~UGt(nFrames, 0) THEN [chunks |-> chunks, avail |-> avail]
    ELSE LET c == I2SChunk(nFrames, bs, avail, qSize, rejAt = Len(chunks) + 1)
         IN FillLoop(USub(nFrames, c.req), bs,
                     avail + (c.nAccepted \div (OutChannels * BytesPerSample)),
                     qSize, rejAt, Append(chunks, c))

FillQueue(nFrames, bs, avail, qSize, rejAt) ==
    FillLoop(nFrames, bs, avail, qSize, rejAt, <<>>)

\* as I2SProcess, with the whole queue size refilled instead of the free frames
I2SProcess_WholeQueue(active, bs, avail, qSize, rejAt) ==
    IF ~active THEN [chunks |-> <<>>, avail |-> avail]
    ELSE IF UGt(USub(qSize, avail), 0)
         THEN FillQueue(qSize, bs, avail, qSize, rejAt)
         ELSE [chunks |-> <<>>, avail |-> avail]

\* CPdSoundI2S::Process: nothing unless the device is active and the queue
\* has free frames; then FillQueue(free frames)
I2SProcess(active, bs, avail, qSize, rejAt) ==
    IF ~active THEN [chunks |-> <<>>, avail |-> avail]
    ELSE LET nFreeFrames == USub(qSize, avail)
         IN IF UGt(nFreeFrames, 0)
            THEN FillQueue(nFreeFrames, bs, avail, qSize, rejAt)
            ELSE [chunks |-> <<>>, avail |-> avail]

\* CPdSoundPWM::GetChunk(pBuffer, nChunkSize): one engine call; the samples
\* converted are those the engine filled, cut to nChunkSize, and the rest of
\* the buffer is set to the mid value
PWMGetChunk(nChunkSize, bs) ==
    LET nFrames == nChunkSize \div 2
        nTicks == TicksFor(nFrames, bs)
        nProcessFrames == nTicks * bs
        nSamplesOut == nProcessFrames * OutChannels
    IN [req |-> nFrames,
        nTicks |-> nTicks,
        nProduced |-> nSamplesOut,
        nSamples |-> Min(nSamplesOut, nChunkSize),
        nSilence |-> IF nSamplesOut < nChunkSize THEN nChunkSize - nSamplesOut ELSE 0,
        nBytes |-> 0,
        nAccepted |-> 0]

Pass(op, active, free, chunks) ==
    [op |-> op, active0 |-> active, free0 |-> free, chunks |-> chunks]

\* no sample converted yet
NoSample == [dev |-> "none", sample |-> [k |-> "num", n |-> 0, d |-> 1], out |-> 0]

\* the audio devices as constructed over a PWM device of the given range:
\* not started, the queue empty
AudioInitRange(rate, bs, range) ==
    /\ m_nSampleRate = rate
    /\ nBlockSize = bs
    /\ devActive = FALSE
    /\ queueAvail = 0
    /\ lastRefill = Pass("init", FALSE, 0, <<>>)
    /\ pwmRange = range
    /\ lastSample = NoSample

AudioInit(rate, bs) == AudioInitRange(rate, bs, <<0, 1>>)

\* libpd's block size
DEFAULT_BLOCKSIZE == 64

AudioIdle == AudioInit(DEFAULT_SAMPLE_RATE, DEFAULT_BLOCKSIZE)

QueueSize == QueueSizeFrames(m_nSampleRate)

\* CPdSoundI2S::Start: fill the whole queue, then start the device
Start(rejAt, bStarted) ==
    LET r == FillQueue(QueueSize, nBlockSize, queueAvail, QueueSize, rejAt) IN
    /\ lastRefill.op = "init"
    /\ lastRefill' = Pass("Start", devActive, QueueSize - queueAvail, r.chunks)
    /\ queueAvail' = r.avail
    /\ devActive' = bStarted
    /\ UNCHANGED <<m_nSampleRate, nBlockSize, pwmRange, lastSample, fileVars, fudiVars>>

Process(rejAt) ==
    LET r == I2SProcess(devActive, nBlockSize, queueAvail, QueueSize, rejAt) IN
    /\ lastRefill.op # "init"
    /\ lastRefill' = Pass("Process", devActive, QueueSize - queueAvail, r.chunks)
    /\ queueAvail' = r.avail
    /\ UNCHANGED <<m_nSampleRate, nBlockSize, devActive, pwmRange, lastSample, fileVars, fudiVars>>

\* CPdSoundI2S::Cancel
Cancel ==
    /\ devActive
    /\ devActive' = FALSE
    /\ lastRefill' = Pass("Cancel", devActive, QueueSize - queueAvail, <<>>)
    /\ UNCHANGED <<m_nSampleRate, nBlockSize, queueAvail, pwmRange, lastSample, fileVars, fudiVars>>

\* the hardware plays n frames out of the queue
Drain(n) ==
    /\ devActive
    /\ n <= queueAvail
    /\ queueAvail' = queueAvail - n
    /\ lastRefill' = Pass("Drain", devActive, QueueSize - queueAvail, <<>>)
    /\ UNCHANGED <<m_nSampleRate, nBlockSize, devActive, pwmRange, lastSample, fileVars, fudiVars>>

\* the PWM device asks for a chunk of nChunkSize samples
GetChunk(nChunkSize) ==
    /\ lastRefill' = Pass("GetChunk", devActive, nChunkSize,
                          <<PWMGetChunk(nChunkSize, nBlockSize)>>)
    /\ UNCHANGED <<m_nSampleRate, nBlockSize, devActive, queueAvail, pwmRange, lastSample, fileVars, fudiVars>>

-----------------------------------------------------------------------------
(* The conversion of one engine sample.  A float is the rational n/d       *)
(* (d > 0), an infinity (the sign in n) or a NaN.                          *)

Num(n, d) == [k |-> "num", n |-> n, d |-> d]

NaN == [k |-> "nan", n |-> 0, d |-> 1]

Inf(sign) == [k |-> "inf", n |-> sign, d |-> 1]

\* int / int of C: the quotient truncated toward zero (b > 0)
TruncDiv(a, b) == IF a >= 0 THEN a \div b ELSE -((-a) \div b)

\* the full scale of a signed 16 bit sample
I2S_FULL_SCALE == 32767

\* if (sample > 1.0f) sample = 1.0f; if (sample < -1.0f) sample = -1.0f;
\* both comparisons are false on a NaN
ClampSample_Above(sample) ==
    IF (sample.k = "num" /\ sample.n > sample.d) \/ (sample.k = "inf" /\ sample.n > 0)
    THEN Num(1, 1)
    ELSE sample

ClampSample(sample) ==
    IF (sample.k = "num" /\ sample.n > sample.d) \/ (sample.k = "inf" /\ sample.n > 0)
    THEN Num(1, 1)
    ELSE IF (sample.k = "num" /\ sample.n < -sample.d) \/ (sample.k = "inf" /\ sample.n < 0)
         THEN Num(-1, 1)
         ELSE sample

\* (int)(NaN): undefined in C++; the ARM conversion instruction of the
\* build (VCVT / FCVTZS) gives 0 for a NaN and saturates an infinity
NaNToInt == {0}

\* (int)(sample * scale): the outcomes of the conversion, truncated toward zero
FloatToInt(sample, scale) ==
    CASE sample.k = "num" -> {TruncDiv(sample.n * scale, sample.d)}
      [] sample.k = "nan" -> NaNToInt
      [] sample.k = "inf" ->
            IF scale = 0 THEN NaNToInt
            ELSE IF (sample.n > 0) <=> (scale > 0) THEN {MaxInt} ELSE {MinInt}

\* (s16)v: the low 16 bits, sign extended
ToS16(v) == ((v + 32768) % 65536) - 32768

\* CPdSoundI2S::FillQueue, one element of the conversion loop
I2SSample(sample) ==
    {ToS16(v) : v \in FloatToInt(ClampSample(sample), I2S_FULL_SCALE)}

\* CPdSoundPWM::GetChunk, one element of the conversion loop
PWMSample(sample, nRangeMin, nRangeMax) ==
    LET nRange == nRangeMax - nRangeMin
        nMid == TruncDiv(nRangeMin + nRangeMax, 2)
    IN  {nMid + v : v \in FloatToInt(ClampSample(sample), TruncDiv(nRange, 2))}

\* CPdSoundPWM::GetChunk, one element of the fill of the remainder
PWMSilence(nRangeMin, nRangeMax) == TruncDiv(nRangeMin + nRangeMax, 2)

\* the I2S refill converts the engine's sample
ConvertI2S(sample) ==
    /\ \E v \in I2SSample(sample) :
          lastSample' = [dev |-> "I2S", sample |-> sample, out |-> v]
    /\ UNCHANGED <<m_nSampleRate, nBlockSize, devActive, queueAvail, lastRefill,
                   pwmRange, fileVars, fudiVars>>

\* the PWM chunk converts the engine's sample
ConvertPWM(sample) ==
    /\ \E v \in PWMSample(sample, pwmRange[1], pwmRange[2]) :
          lastSample' = [dev |-> "PWM", sample |-> sample, out |-> v]
    /\ UNCHANGED <<m_nSampleRate, nBlockSize, devActive, queueAvail, lastRefill,
                   pwmRange, fileVars, fudiVars>>

\* the PWM chunk pads what the engine did not produce
PadPWM ==
    /\ lastSample' = [dev |-> "PWM", sample |-> Num(0, 1),
                      out |-> PWMSilence(pwmRange[1], pwmRange[2])]
    /\ UNCHANGED <<m_nSampleRate, nBlockSize, devActive, queueAvail, lastRefill,
                   pwmRange, fileVars, fudiVars>>

-----------------------------------------------------------------------------
(* pd_fudi.cpp.  A byte is a one-character string; NUL is the zero byte.   *)

FUDI_MAX_MESSAGE_LEN == 256

FUDI_MAX_ATOMS == 32

CR == "\r"

LF == "\n"

TAB == "\t"

NUL == "NUL"

Digits == {"0", "1", "2", "3", "4", "5", "6", "7", "8", "9"}

DigitVal(c) ==
    CASE c = "0" -> 0 [] c = "1" -> 1 [] c = "2" -> 2 [] c = "3" -> 3 [] c = "4" -> 4
      [] c = "5" -> 5 [] c = "6" -> 6 [] c = "7" -> 7 [] c = "8" -> 8 [] c = "9" -> 9

\* the C string held in a char array: the bytes before the first NUL
CStr(s) ==
    IF \A i \in 1 .. Len(s) : s[i] # NUL THEN s
    ELSE SubSeq(s, 1, (CHOOSE i \in 1 .. Len(s) :
                           s[i] = NUL /\ \A j \in 1 .. (i - 1) : s[j] # NUL) - 1)

\* strncpy(szWork, m_Buffer, sizeof(szWork) - 1) and the terminating NUL
WorkCopy(buf) == Take(CStr(buf), FUDI_MAX_MESSAGE_LEN - 1)

IsDelim(c) == c = " " \/ c = TAB

\* strtok_r(.., " \t", ..) called until it returns null: the maximal runs of
\* bytes that are not delimiters, in order
\* (one step per token: it starts at the first byte that is not a delimiter
\* and ends before the next delimiter, which strtok_r overwrites)
FirstAt(s, from, delim) ==
    IF \A i \in from .. Len(s) : IsDelim(s[i]) # delim THEN Len(s) + 1
    ELSE CHOOSE i \in from .. Len(s) :
             /\ IsDelim(s[i]) = delim
             /\ \A j \in from .. (i - 1) : IsDelim(s[j]) # delim

RECURSIVE StrTok(_, _, _)
StrTok(s, b, toks) ==
    IF b > Len(s) THEN toks
    ELSE StrTok(s, FirstAt(s, FirstAt(s, b, TRUE), FALSE),
                Append(toks, SubSeq(s, b, FirstAt(s, b, TRUE) - 1)))

\* a tokenizer that keeps every token
Tokenize_Unbounded(szWork) == StrTok(szWork, FirstAt(szWork, 1, FALSE), <<>>)

\* the tokens ParseMessage keeps: at most FUDI_MAX_ATOMS
Tokenize(szWork) == Take(StrTok(szWork, FirstAt(szWork, 1, FALSE), <<>>), FUDI_MAX_ATOMS)

Signed(neg, m) == IF neg THEN 0 - m ELSE m

\* a decimal value m * 10^e with m not a multiple of 10 (0 is [m 0, e 0])
RECURSIVE Normal(_, _)
Normal(m, e) ==
    IF m = 0 THEN [m |-> 0, e |-> 0]
    ELSE IF m % 10 = 0 THEN Normal(Signed(m < 0, (Signed(m < 0, m)) \div 10), e + 1)
    ELSE [m |-> m, e |-> e]

Lower(c) ==
    CASE c = "I" -> "i" [] c = "N" -> "n" [] c = "F" -> "f" [] c = "A" -> "a"
      [] c = "T" -> "t" [] c = "Y" -> "y" [] c = "E" -> "e" [] c = "X" -> "x"
      [] OTHER -> c

\* does the token, lower-cased from index i0 on, start with the word w
StartsWord(tok, i0, w) ==
    /\ Len(tok) - i0 + 1 >= Len(w)
    /\ \A k \in 1 .. Len(w) : Lower(tok[i0 + k - 1]) = w[k]

\* strtof on a token with no decimal digits after the sign: inf, infinity, nan
StrtofWord(tok, i0, neg) ==
    IF StartsWord(tok, i0, <<"i", "n", "f", "i", "n", "i", "t", "y">>)
    THEN [end |-> i0 + 8, val |-> [m |-> IF neg THEN "-inf" ELSE "inf", e |-> 0]]
    ELSE IF StartsWord(tok, i0, <<"i", "n", "f">>)
    THEN [end |-> i0 + 3, val |-> [m |-> IF neg THEN "-inf" ELSE "inf", e |-> 0]]
    ELSE IF StartsWord(tok, i0, <<"n", "a", "n">>)
    THEN [end |-> i0 + 3, val |-> [m |-> "nan", e |-> 0]]
    ELSE [end |-> 1, val |-> [m |-> 0, e |-> 0]]

\* what strtof has read so far: the sign, the mantissa's digits as a number,
\* how many digits and how many of them after the point, the exponent, and
\* end, the index after the longest prefix that is a number
NoNumber ==
    [neg |-> FALSE, mant |-> 0, nDig |-> 0, nFrac |-> 0,
     expNeg |-> FALSE, exp |-> 0, end |-> 1]

\* strtof's scan of a decimal number from byte i on: an optional sign,
\* digits, an optional point and digits, and an exponent, which counts only
\* once it has a digit
RECURSIVE StrtofScan(_, _, _, _)
StrtofScan(tok, i, st, r) ==
    IF i > Len(tok) THEN r
    ELSE IF st = "sign"
    THEN IF tok[i] \in {"+", "-"}
         THEN StrtofScan(tok, i + 1, "int", [r EXCEPT !.neg = (tok[i] = "-")])
         ELSE StrtofScan(tok, i, "int", r)
    ELSE IF st \in {"int", "frac"}
    THEN IF tok[i] \in Digits
         THEN StrtofScan(tok, i + 1, st,
                         [r EXCEPT !.mant = @ * 10 + DigitVal(tok[i]), !.nDig = @ + 1,
                                   !.nFrac = IF st = "frac" THEN @ + 1 ELSE @,
                                   !.end = i + 1])
         ELSE IF tok[i] = "." /\ st = "int"
         THEN StrtofScan(tok, i + 1, "frac",
                         [r EXCEPT !.end = IF r.nDig > 0 THEN i + 1 ELSE @])
         ELSE IF tok[i] \in {"e", "E"} /\ r.nDig > 0
         THEN StrtofScan(tok, i + 1, "esign", r)
         ELSE r
    ELSE IF st = "esign"
    THEN IF tok[i] \in {"+", "-"}
         THEN StrtofScan(tok, i + 1, "exp", [r EXCEPT !.expNeg = (tok[i] = "-")])
         ELSE StrtofScan(tok, i, "exp", r)
    ELSE IF tok[i] \in Digits
         THEN StrtofScan(tok, i + 1, "exp",
                         [r EXCEPT !.exp = @ * 10 + DigitVal(tok[i]), !.end = i + 1])
         ELSE r

StrtofValue(tok, r) ==
    IF r.nDig = 0
    THEN StrtofWord(tok, IF tok[1] \in {"+", "-"} THEN 2 ELSE 1, tok[1] = "-")
    ELSE [end |-> r.end,
          val |-> Normal(Signed(r.neg, r.mant), Signed(r.expNeg, r.exp) - r.nFrac)]

\* strtof(pAtom, &pEnd) on a non-empty token: end is the index of the first
\* byte not consumed (1: nothing parsed), val the value read.  Decimal
\* numbers with an optional sign, fraction and exponent, and inf, infinity,
\* nan.
Strtof(tok) == StrtofValue(tok, StrtofScan(tok, 1, "sign", NoNumber))

\* a ParseAtom that takes a token for a float as soon as strtof read some of it
ParseAtom_Prefix(pAtom) ==
    IF pAtom = <<>> THEN [ok |-> FALSE, bIsFloat |-> FALSE, fValue |-> [m |-> 0, e |-> 0]]
    ELSE [ok |-> TRUE, bIsFloat |-> Strtof(pAtom).end # 1, fValue |-> Strtof(pAtom).val]

\* ParseAtom: a float if strtof consumed the whole token, a symbol otherwise
ParseAtom(pAtom) ==
    IF pAtom = <<>> THEN [ok |-> FALSE, bIsFloat |-> FALSE, fValue |-> [m |-> 0, e |-> 0]]
    ELSE LET r == Strtof(pAtom)
         IN IF r.end # 1 /\ r.end = Len(pAtom) + 1
            THEN [ok |-> TRUE, bIsFloat |-> TRUE, fValue |-> r.val]
            ELSE [ok |-> TRUE, bIsFloat |-> FALSE, fValue |-> [m |-> 0, e |-> 0]]

\* The engine's answers to a message: eng.start is what libpd_start_message
\* returns, eng.send what libpd_bang, libpd_float, libpd_symbol and
\* libpd_finish_message return (0: accepted).
EngineAnswers == [start : {0, -1}, send : {0, -1}]

\* an AddArgs that adds the first argument only
AddArgs_FirstOnly(pTokens, i) ==
    IF i > Len(pTokens) \/ i > 3 THEN <<>>
    ELSE IF ParseAtom(pTokens[i]).bIsFloat
         THEN << <<"libpd_add_float", ParseAtom(pTokens[i]).fValue>> >>
         ELSE << <<"libpd_add_symbol", pTokens[i]>> >>

\* an AddArgs that adds the last argument first
RECURSIVE AddArgs_Reversed(_, _)
AddArgs_Reversed(pTokens, i) ==
    IF i > Len(pTokens) THEN <<>>
    ELSE AddArgs_Reversed(pTokens, i + 1)
         \o (IF ParseAtom(pTokens[i]).bIsFloat
             THEN << <<"libpd_add_float", ParseAtom(pTokens[i]).fValue>> >>
             ELSE << <<"libpd_add_symbol", pTokens[i]>> >>)

\* the libpd_add_float / libpd_add_symbol calls for the tokens from index i on
RECURSIVE AddArgs(_, _)
AddArgs(pTokens, i) ==
    IF i > Len(pTokens) THEN <<>>
    ELSE LET a == ParseAtom(pTokens[i])
         IN (IF ~a.ok THEN <<>>
             ELSE IF a.bIsFloat THEN << <<"libpd_add_float", a.fValue>> >>
             ELSE << <<"libpd_add_symbol", pTokens[i]>> >>)
            \o AddArgs(pTokens, i + 1)

\* an outcome that counts an error whenever the message was not sent
Parsed_ErrorOnEmpty(ret, calls) ==
    [ret |-> ret, calls |-> calls,
     dMsgs |-> IF ret THEN 1 ELSE 0,
     dErrs |-> IF ret THEN 0 ELSE 1]

\* an outcome that counts an error for every message sent to the engine
Parsed_CountBoth(ret, calls) ==
    [ret |-> ret, calls |-> calls,
     dMsgs |-> IF ret THEN 1 ELSE 0,
     dErrs |-> IF calls = <<>> THEN 0 ELSE 1]

\* the outcome of ParseMessage: what it returns, the engine calls made (each
\* with the value the engine returned), which counter it incremented
Parsed(ret, calls) ==
    [ret |-> ret, calls |-> calls,
     dMsgs |-> IF ret THEN 1 ELSE 0,
     dErrs |-> IF ret \/ calls = <<>> THEN 0 ELSE 1]

Bang == <<"b", "a", "n", "g">>

\* a ParseMessage that does not look at what the engine returned
ParseMessage_Unchecked(buf, eng) ==
    LET nTokens == Len(Tokenize(WorkCopy(buf)))
    IN IF nTokens = 0 THEN Parsed(FALSE, <<>>)
       ELSE Parsed(TRUE, << <<"libpd_bang", Tokenize(WorkCopy(buf))[1], eng.send>> >>)

ParseMessage(buf, eng) ==
    LET pTokens == Tokenize(WorkCopy(buf))
        nTokens == Len(pTokens)
    IN IF nTokens = 0 THEN Parsed(FALSE, <<>>)
    ELSE
    LET pReceiver == pTokens[1] IN
    IF nTokens = 1
    THEN Parsed(eng.send = 0, << <<"libpd_bang", pReceiver, eng.send>> >>)
    ELSE
    LET pSecond == pTokens[2] IN
    IF pSecond = Bang
    THEN Parsed(eng.send = 0, << <<"libpd_bang", pReceiver, eng.send>> >>)
    ELSE IF nTokens = 2
    THEN LET a == ParseAtom(pSecond)
         IN IF a.ok /\ a.bIsFloat
            THEN Parsed(eng.send = 0, << <<"libpd_float", pReceiver, a.fValue, eng.send>> >>)
            ELSE Parsed(eng.send = 0, << <<"libpd_symbol", pReceiver, pSecond, eng.send>> >>)
    ELSE
    LET nArgs == nTokens - 2
        start == << <<"libpd_start_message", nArgs, eng.start>> >>
    IN IF eng.start # 0 THEN Parsed(FALSE, start)
       ELSE Parsed(eng.send = 0,
                   start \o AddArgs(pTokens, 3)
                         \o << <<"libpd_finish_message", pReceiver, pSecond, eng.send>> >>)

\* the outcome of ProcessByte: the parser's new state, the value returned
\* and the engine calls made
Fed(buf, msgs, errs, ret, calls) ==
    [buf |-> buf, msgs |-> msgs, errs |-> errs, ret |-> ret, calls |-> calls]

\* if (c == ';' || c == '\n') if (m_nBufferPos > 0): ParseMessage is run
RunsParser(buf, c) == (c = ";" \/ c = LF) /\ Len(buf) > 0

\* a ProcessByte that empties the buffer only when the message was sent
ProcessByte_KeepOnFailure(buf, msgs, errs, c, eng) ==
    IF c = CR THEN Fed(buf, msgs, errs, FALSE, <<>>)
    ELSE IF c = ";" \/ c = LF
    THEN IF Len(buf) > 0
         THEN Fed(IF ParseMessage(buf, eng).ret THEN <<>> ELSE buf,
                  UAdd(msgs, ParseMessage(buf, eng).dMsgs),
                  UAdd(errs, ParseMessage(buf, eng).dErrs),
                  ParseMessage(buf, eng).ret, ParseMessage(buf, eng).calls)
         ELSE Fed(buf, msgs, errs, FALSE, <<>>)
    ELSE IF Len(buf) < FUDI_MAX_MESSAGE_LEN - 1
    THEN Fed(Append(buf, c), msgs, errs, FALSE, <<>>)
    ELSE Fed(<<>>, msgs, UAdd(errs, 1), FALSE, <<>>)

\* a ProcessByte that lets the buffer fill to FUDI_MAX_MESSAGE_LEN bytes
ProcessByte_OffByOne(buf, msgs, errs, c, eng) ==
    IF c = CR THEN Fed(buf, msgs, errs, FALSE, <<>>)
    ELSE IF c = ";" \/ c = LF
    THEN IF Len(buf) > 0
         THEN Fed(<<>>, msgs, errs, FALSE, <<>>)
         ELSE Fed(buf, msgs, errs, FALSE, <<>>)
    ELSE IF Len(buf) < FUDI_MAX_MESSAGE_LEN
    THEN Fed(Append(buf, c), msgs, errs, FALSE, <<>>)
    ELSE Fed(<<>>, msgs, UAdd(errs, 1), FALSE, <<>>)

\* a ProcessByte that starts the next message with the byte that overflowed
ProcessByte_KeepTrigger(buf, msgs, errs, c, eng) ==
    IF c = CR THEN Fed(buf, msgs, errs, FALSE, <<>>)
    ELSE IF c = ";" \/ c = LF
    THEN IF Len(buf) > 0
         THEN Fed(<<>>, UAdd(msgs, ParseMessage(buf, eng).dMsgs),
                  UAdd(errs, ParseMessage(buf, eng).dErrs),
                  ParseMessage(buf, eng).ret, ParseMessage(buf, eng).calls)
         ELSE Fed(buf, msgs, errs, FALSE, <<>>)
    ELSE IF Len(buf) < FUDI_MAX_MESSAGE_LEN - 1
    THEN Fed(Append(buf, c), msgs, errs, FALSE, <<>>)
    ELSE Fed(<<c>>, msgs, UAdd(errs, 1), FALSE, <<>>)

\* a parser that stores a carriage return like any other byte
ProcessByte_StoreCR(buf, msgs, errs, c, eng) ==
    IF c = ";" \/ c = LF
    THEN IF Len(buf) > 0
         THEN LET r == ParseMessage(buf, eng)
              IN Fed(<<>>, UAdd(msgs, r.dMsgs), UAdd(errs, r.dErrs), r.ret, r.calls)
         ELSE Fed(buf, msgs, errs, FALSE, <<>>)
    ELSE IF Len(buf) < FUDI_MAX_MESSAGE_LEN - 1
    THEN Fed(Append(buf, c), msgs, errs, FALSE, <<>>)
    ELSE Fed(<<>>, msgs, UAdd(errs, 1), FALSE, <<>>)

ProcessByte(buf, msgs, errs, c, eng) ==
    IF c = CR THEN Fed(buf, msgs, errs, FALSE, <<>>)
    ELSE IF c = ";" \/ c = LF
    THEN IF Len(buf) > 0
         THEN LET r == ParseMessage(buf, eng)
              IN Fed(<<>>, UAdd(msgs, r.dMsgs), UAdd(errs, r.dErrs), r.ret, r.calls)
         ELSE Fed(buf, msgs, errs, FALSE, <<>>)
    ELSE IF Len(buf) < FUDI_MAX_MESSAGE_LEN - 1
    THEN Fed(Append(buf, c), msgs, errs, FALSE, <<>>)
    ELSE Fed(<<>>, msgs, UAdd(errs, 1), FALSE, <<>>)

\* a ProcessBuffer that reports whether a message was parsed, not how many
RECURSIVE ProcessBuffer_Flag(_, _, _)
ProcessBuffer_Flag(st, pBuffer, eng) ==
    IF pBuffer = <<>> THEN st
    ELSE LET r == ProcessByte(st.buf, st.msgs, st.errs, Head(pBuffer), eng)
         IN ProcessBuffer_Flag([buf |-> r.buf, msgs |-> r.msgs, errs |-> r.errs,
                                nMessages |-> IF r.ret THEN 1 ELSE st.nMessages,
                                calls |-> st.calls \o r.calls],
                               Tail(pBuffer), eng)

\* CFudiParser::ProcessBuffer: ProcessByte on each byte in turn; nMessages
\* counts the bytes for which it returned TRUE.  The engine answers eng to
\* every message of the buffer.
RECURSIVE ProcessBuffer(_, _, _)
ProcessBuffer(st, pBuffer, eng) ==
    IF pBuffer = <<>> THEN st
    ELSE LET r == ProcessByte(st.buf, st.msgs, st.errs, Head(pBuffer), eng)
         IN ProcessBuffer([buf |-> r.buf, msgs |-> r.msgs, errs |-> r.errs,
                           nMessages |-> st.nMessages + (IF r.ret THEN 1 ELSE 0),
                           calls |-> st.calls \o r.calls],
                          Tail(pBuffer), eng)

\* the parser's state as ProcessBuffer threads it
ParserState(buf, msgs, errs) ==
    [buf |-> buf, msgs |-> msgs, errs |-> errs, nMessages |-> 0, calls |-> <<>>]

\* nothing sent yet
NoSend == [op |-> "none", cb |-> FALSE, receiver |-> <<>>, payload |-> <<>>, out |-> <<>>]

\* CFudiParser::CFudiParser
FudiInit ==
    /\ m_Buffer = <<>>
    /\ m_nMessagesReceived = 0
    /\ m_nParseErrors = 0
    /\ lastByte = [c |-> "", ret |-> FALSE, pos0 |-> 0, calls |-> <<>>]
    /\ lastBuffer = [pBuffer |-> <<>>, ret |-> 0, calls |-> <<>>]
    /\ m_pOutputCallback = FALSE
    /\ lastSent = NoSend

m_nBufferPos == Len(m_Buffer)

\* a byte arrives; pos0 is m_nBufferPos before it
Feed(c, eng) ==
    LET r == ProcessByte(m_Buffer, m_nMessagesReceived, m_nParseErrors, c, eng) IN
    /\ m_Buffer' = r.buf
    /\ m_nMessagesReceived' = r.msgs
    /\ m_nParseErrors' = r.errs
    /\ lastByte' = [c |-> c, ret |-> r.ret, pos0 |-> m_nBufferPos, calls |-> r.calls]
    /\ UNCHANGED <<lastBuffer, m_pOutputCallback, lastSent, fileVars, audioVars>>

\* a buffer of bytes arrives
FeedBuffer(pBuffer, eng) ==
    LET r == ProcessBuffer(ParserState(m_Buffer, m_nMessagesReceived, m_nParseErrors),
                           pBuffer, eng) IN
    /\ m_Buffer' = r.buf
    /\ m_nMessagesReceived' = r.msgs
    /\ m_nParseErrors' = r.errs
    /\ lastBuffer' = [pBuffer |-> pBuffer, ret |-> r.nMessages, calls |-> r.calls]
    /\ UNCHANGED <<lastByte, m_pOutputCallback, lastSent, fileVars, audioVars>>

-----------------------------------------------------------------------------
(* The encoders of pd_fudi.cpp.  A text is a sequence of bytes; a float is *)
(* the decimal m * 10^e that strtof yields; the values sent are finite.    *)

\* snprintf(szMsg, sizeof(szMsg), ...): at most sizeof(szMsg) - 1 bytes of
\* the formatted text are stored, the rest is cut off
Snprintf(text) == Take(text, FUDI_MAX_MESSAGE_LEN - 1)

DecChar == <<"0", "1", "2", "3", "4", "5", "6", "7", "8", "9">>

\* the decimal digits of n >= 0
RECURSIVE DecDigits(_)
DecDigits(n) ==
    IF n < 10 THEN <<DecChar[n + 1]>>
    ELSE Append(DecDigits(n \div 10), DecChar[(n % 10) + 1])

RECURSIVE Zeros(_)
Zeros(n) == IF n <= 0 THEN <<>> ELSE <<"0">> \o Zeros(n - 1)

\* the precision of %g: six significant digits
G_PRECISION == 6

RECURSIVE Pow10(_)
Pow10(k) == IF k <= 0 THEN 1 ELSE 10 * Pow10(k - 1)

\* a >= 0 times 10^e rounded to G_PRECISION significant digits, half to
\* even, as a decimal m * 10^e
GRound(a, e) ==
    LET k == Len(DecDigits(a)) - G_PRECISION
        q == a \div Pow10(k)
        rem == a % Pow10(k)
    IN  IF k <= 0 THEN Normal(a, e)
        ELSE Normal(IF 2 * rem > Pow10(k) \/ (2 * rem = Pow10(k) /\ q % 2 = 1)
                    THEN q + 1 ELSE q, e + k)

\* printf("%g", (double)fValue) of a finite value
GFormat(fValue) ==
    LET w == GRound(IF fValue.m < 0 THEN 0 - fValue.m ELSE fValue.m, fValue.e)
        digs == DecDigits(w.m)
        nd == Len(digs)
        X == nd - 1 + w.e
        sign == IF fValue.m < 0 THEN <<"-">> ELSE <<>>
    IN  IF w.m = 0 THEN <<"0">>
        ELSE IF X < -4 \/ X >= G_PRECISION
        THEN sign \o <<digs[1]>> \o (IF nd > 1 THEN <<".">> \o SubSeq(digs, 2, nd) ELSE <<>>)
                  \o <<"e", IF X < 0 THEN "-" ELSE "+">>
                  \o (IF X > -10 /\ X < 10 THEN <<"0">> ELSE <<>>)
                  \o DecDigits(IF X < 0 THEN 0 - X ELSE X)
        ELSE IF w.e >= 0 THEN sign \o digs \o Zeros(w.e)
        ELSE IF X >= 0 THEN sign \o SubSeq(digs, 1, X + 1) \o <<".">> \o SubSeq(digs, X + 2, nd)
        ELSE sign \o <<"0", ".">> \o Zeros(0 - X - 1) \o digs

\* the texts handed to the output callback, one per invocation
\* CFudiParser::SendFloat
SendFloat(cb, pReceiver, fValue) ==
    IF cb THEN << Snprintf(pReceiver \o <<" ">> \o GFormat(fValue) \o <<";", LF>>) >>
    ELSE <<>>

\* CFudiParser::SendBang
SendBang(cb, pReceiver) ==
    IF cb THEN << Snprintf(pReceiver \o <<" ">> \o Bang \o <<";", LF>>) >>
    ELSE <<>>

\* CFudiParser::SendSymbol
SendSymbol(cb, pReceiver, pSymbol) ==
    IF cb THEN << Snprintf(pReceiver \o <<" ">> \o pSymbol \o <<";", LF>>) >>
    ELSE <<>>

\* CFudiParser::SendMessage
SendMessage(cb, pReceiver, pMessage) ==
    IF cb THEN << Snprintf(pReceiver \o <<" ">> \o pMessage \o <<";", LF>>) >>
    ELSE <<>>

\* CFudiParser::SetOutputCallback
SetOutputCallback(pCallback) ==
    /\ m_pOutputCallback' = pCallback
    /\ UNCHANGED <<m_Buffer, m_nMessagesReceived, m_nParseErrors, lastByte, lastBuffer,
                   lastSent, fileVars, audioVars>>

\* a Send* call: what it was given, whether a callback was registered, what
\* the callback was handed
Sent(op, pReceiver, payload, out) ==
    /\ lastSent' = [op |-> op, cb |-> m_pOutputCallback, receiver |-> pReceiver,
                    payload |-> payload, out |-> out]
    /\ UNCHANGED <<m_Buffer, m_nMessagesReceived, m_nParseErrors, lastByte, lastBuffer,
                   m_pOutputCallback, fileVars, audioVars>>

CallSendFloat(pReceiver, fValue) ==
    Sent("SendFloat", pReceiver, fValue, SendFloat(m_pOutputCallback, pReceiver, fValue))

CallSendBang(pReceiver) ==
    Sent("SendBang", pReceiver, Bang, SendBang(m_pOutputCallback, pReceiver))

CallSendSymbol(pReceiver, pSymbol) ==
    Sent("SendSymbol", pReceiver, pSymbol, SendSymbol(m_pOutputCallback, pReceiver, pSymbol))

CallSendMessage(pReceiver, pMessage) ==
    Sent("SendMessage", pReceiver, pMessage, SendMessage(m_pOutputCallback, pReceiver, pMessage))

-----------------------------------------------------------------------------
(* The callers of the file table *)

NumValid(tab) == Cardinality({i \in Slots : tab[i].bValid})

\* a call replaces the table and the filesystem's handles by its result and
\* leaves in lastCall what the caller saw, and the offset of the addressed
\* session before the call (pos0)
Commit(op, fd, r) ==
    /\ lastCall' = [op |-> op, fd |-> fd, ret |-> r.ret, data |-> r.data,
                    pos0 |-> IF BadHandle(s_FileTable, fd) THEN -1
                             ELSE s_FileTable[fd - FD_OFFSET].nPosition]
    /\ s_FileTable' = r.tab
    /\ fsOpen' = r.fo
    /\ UNCHANGED <<fsFiles, loop, audioVars, fudiVars>>

Open(path, flt) ==
    Commit("open", -1, barepd_open(s_FileTable, fsOpen, path, 0, flt))

Close(fd) ==
    Commit("close", fd, pd_fileio_close(s_FileTable, fsOpen, fd))

Read(fd, bufNull, count, flt) ==
    Commit("read", fd, pd_fileio_read(s_FileTable, fsOpen, fd, bufNull, count, flt))

Seek(fd, offset, whence, flt) ==
    Commit("lseek", fd, pd_fileio_lseek(s_FileTable, fsOpen, fd, offset, whence, flt))

OpenWith(path, oflag, flt) ==
    Commit("open", -1, barepd_open(s_FileTable, fsOpen, path, oflag, flt))

Fopen(filename, mode, flt) ==
    Commit("fopen", -1, barepd_fopen(s_FileTable, fsOpen, filename, mode, flt))

Stat(path, flt) ==
    Commit("stat", -1, pd_fileio_stat(s_FileTable, fsOpen, path, flt))

\* pd_fileio_init: every slot unused; nothing open in the filesystem
InitTable(card) ==
    /\ s_FileTable = [i \in Slots |-> EmptyEntry]
    /\ fsFiles = card
    /\ fsOpen = [h \in FsHandles |-> NoFile]
    /\ lastCall = [op |-> "init", fd |-> -1, ret |-> 0, data |-> <<>>, pos0 |-> -1]
    /\ loop = NoLoop("none", 0, 0)

-----------------------------------------------------------------------------
(* SpecFile: the card holds either one short file, of which the caller     *)
(* keeps at most MaxSessions sessions open, or one file longer than two    *)
(* skip buffers, opened by one session at a time.                          *)

MaxSessions == 2

BigSize == 1030

SmallFile == <<65, 66>>

BigFile == [i \in 1 .. BigSize |-> i % 251]

SmallCard == (<<"a">> :> SmallFile)

BigCard == (<<"s">> :> BigFile)

IsBigCard == <<"s">> \in DOMAIN fsFiles

OpenPaths ==
    IF IsBigCard THEN {<<"/", "s">>}
    ELSE {<<"a">>, <<".", "/", "/", "a">>, <<"n">>, <<"/">>, NullPath}

SessionLimit == IF IsBigCard THEN 1 ELSE MaxSessions

\* handles a caller passes: the slots it uses, and BadFds: below the
\* offset and past the table
SlotFds == FD_OFFSET .. (FD_OFFSET + SessionLimit - 1)

BadFds == {FD_OFFSET - 1, FD_OFFSET + MAX_OPEN_FILES}

\* <<whence, offset>>
SeekInputs ==
    IF IsBigCard
    THEN {<<0, 0>>, <<0, 1>>, <<0, 513>>, <<0, 2000>>, <<1, -512>>, <<1, 512>>,
          <<2, -1>>, <<2, -1026>>}
    ELSE ({0, 1, 2} \X {-1, 0, 1, 5}) \cup {<<3, 0>>}

ReadCounts == IF IsBigCard THEN {512} ELSE {0, 1, 5}

InitFile == (InitTable(SmallCard) \/ InitTable(BigCard)) /\ AudioIdle /\ FudiInit

NextFile ==
    \/ \E path \in OpenPaths :
          /\ NumValid(s_FileTable) < SessionLimit
          /\ Open(path, NoFault)
    \/ \E fd \in SlotFds \cup BadFds : Close(fd)
    \/ \E fd \in SlotFds : \E count \in ReadCounts : Read(fd, FALSE, count, NoFault)
    \/ \E fd \in SlotFds : Read(fd, TRUE, 1, NoFault)
    \/ \E fd \in BadFds : Read(fd, FALSE, 1, NoFault)
    \/ \E fd \in SlotFds : \E a \in SeekInputs : Seek(fd, a[2], a[1], NoFault)
    \/ \E fd \in BadFds : Seek(fd, 0, 0, NoFault)

SpecFile == InitFile /\ [][NextFile]_vars

-----------------------------------------------------------------------------
(* Claims on the file table, SpecFile *)

\* the content of the file a session was opened on
FileOf(e) == fsFiles[e.szPath]

\* C1: after a Seek that returned an offset, a Read returns the bytes the
\* file holds from that offset on: those left of the whole file once its
\* first 'offset' bytes are discarded, cut to the count asked for.
C1_SeekThenRead ==
    \A fd \in SlotFds :
        (lastCall.op = "lseek" /\ lastCall.fd = fd /\ lastCall.ret >= 0) =>
            \A count \in ReadCounts \ {0} :
                LET e == s_FileTable[fd - FD_OFFSET]
                    r == pd_fileio_read(s_FileTable, fsOpen, fd, FALSE, count, NoFault)
                IN /\ r.data = Take(Drop(FileOf(e), lastCall.ret), count)
                   /\ r.ret = Len(r.data)

\* a backward Seek into the third skip buffer of the long file has returned
C1_Witness ==
    /\ lastCall.op = "lseek"
    /\ lastCall.ret > SKIP_BUF_SIZE + SKIP_BUF_SIZE
    /\ lastCall.ret < lastCall.pos0

-----------------------------------------------------------------------------
(* SpecTable: the caller opens sessions on the short file until the table  *)
(* is full and works near its capacity: it closes a session only while     *)
(* fewer than MaxHoles slots are free.                                     *)

MaxHoles == 2

AllFds == FD_OFFSET .. (FD_OFFSET + MAX_OPEN_FILES - 1)

TablePaths == {<<"a">>, <<"n">>}

NextTable ==
    \/ \E path \in TablePaths : Open(path, NoFault)
    \/ \E fd \in AllFds \cup BadFds :
          /\ NumValid(s_FileTable) > MAX_OPEN_FILES - MaxHoles
          /\ Close(fd)

InitFullTable == InitTable(SmallCard) /\ AudioIdle /\ FudiInit

SpecTable == InitFullTable /\ [][NextTable]_vars

\* C3: with all MAX_OPEN_FILES slots valid an Open fails, calls the
\* filesystem not at all and leaves the table and the open handles as they
\* were; a table that is not full admits the Open of an existing file.
C3_FullTableRejectsOpen ==
    /\ NumValid(s_FileTable) <= MAX_OPEN_FILES
    /\ \A path \in TablePaths :
          LET r == barepd_open(s_FileTable, fsOpen, path, 0, NoFault) IN
          IF NumValid(s_FileTable) = MAX_OPEN_FILES
          THEN /\ r.ret = -1
               /\ r.calls = <<>>
               /\ r.tab = s_FileTable
               /\ r.fo = fsOpen
          ELSE path \in DOMAIN fsFiles => r.ret >= FD_OFFSET

\* an Open has failed on a full table
C3_Witness ==
    /\ lastCall.op = "open"
    /\ lastCall.ret = -1
    /\ NumValid(s_FileTable) = MAX_OPEN_FILES
    /\ \A i \in Slots : s_FileTable[i].hFile # 0

\* the handles of the filesystem that are open
OpenHandles(fo) == {h \in FsHandles : fo[h] # NoFile}

\* C4: Close of a valid handle returns 0, closes the session's backing
\* handle and no other, frees that slot and no other (one valid session
\* less); if the table was full, the next Open of an existing file succeeds
\* and fills it again, so that the Open after it fails.
C4_CloseFreesOneSlot ==
    \A fd \in AllFds :
        ~BadHandle(s_FileTable, fd) =>
            LET slot == fd - FD_OFFSET
                r == pd_fileio_close(s_FileTable, fsOpen, fd)
                o1 == barepd_open(r.tab, r.fo, <<"a">>, 0, NoFault)
                o2 == barepd_open(o1.tab, o1.fo, <<"a">>, 0, NoFault)
            IN /\ r.ret = 0
               /\ OpenHandles(r.fo) = OpenHandles(fsOpen) \ {s_FileTable[slot].hFile}
               /\ ~r.tab[slot].bValid
               /\ \A i \in Slots \ {slot} : r.tab[i] = s_FileTable[i]
               /\ NumValid(r.tab) = NumValid(s_FileTable) - 1
               /\ NumValid(s_FileTable) = MAX_OPEN_FILES =>
                      /\ o1.ret = fd
                      /\ NumValid(o1.tab) = MAX_OPEN_FILES
                      /\ o2.ret = -1

\* a Close has freed a slot of a full table and an Open has filled it again
C4_Witness ==
    /\ lastCall.op = "open"
    /\ lastCall.ret >= FD_OFFSET
    /\ lastCall.ret < FD_OFFSET + MAX_OPEN_FILES - 1
    /\ NumValid(s_FileTable) = MAX_OPEN_FILES

-----------------------------------------------------------------------------
(* SpecAudio: the sample rate and the engine's block size are drawn at     *)
(* construction; the hardware drains the queue in steps of DrainSteps.     *)

SampleRates == {44100, DEFAULT_SAMPLE_RATE}

BlockSizes == {16, DEFAULT_BLOCKSIZE}

DrainSteps == {64, 100, 256, 1000}

PWMChunkSizes == {2, 100, 128, 200, 1536, 3072, 4096}

\* the chunks of a pass whose write the queue may reject
RejectAt == {0, 1, 2}

InitAudio ==
    /\ InitTable(SmallCard)
    /\ FudiInit
    /\ \E rate \in SampleRates : \E bs \in BlockSizes : AudioInit(rate, bs)

NextAudio ==
    \/ \E rejAt \in RejectAt : \E bStarted \in BOOLEAN : Start(rejAt, bStarted)
    \/ \E rejAt \in RejectAt : Process(rejAt)
    \/ Cancel
    \/ \E n \in DrainSteps : Drain(n)
    \/ \E nChunkSize \in PWMChunkSizes : GetChunk(nChunkSize)

SpecAudio == InitAudio /\ [][NextAudio]_vars

-----------------------------------------------------------------------------
(* Claims on the audio bridge, SpecAudio *)

Chunks == {lastRefill.chunks[k] : k \in 1 .. Len(lastRefill.chunks)}

\* C5: for every chunk of a refill the ticks passed to the engine are at
\* least one and cover the frames requested: nTicks * blockSize >= frames.
C5_TicksCoverFrames ==
    \A c \in Chunks : c.nTicks >= 1 /\ c.nTicks * nBlockSize >= c.req

\* C6: for every engine call the samples converted and written are at most
\* the nTicks * blockSize * channels samples the engine produced.
C6_WrittenWithinProduced ==
    \A c \in Chunks : c.nSamples <= c.nTicks * nBlockSize * OutChannels

SumReq(chunks) == LET R[k \in 0 .. Len(chunks)] == IF k = 0 THEN 0 ELSE R[k - 1] + chunks[k].req
                  IN R[Len(chunks)]

\* C7: a Process pass of an active device with free capacity submits, over
\* its chunks, exactly the free capacity (queue size less frames buffered);
\* a pass of an inactive device or on a full queue runs no chunk: neither
\* the engine nor the queue write is called.
C7_ProcessFillsFreeCapacity ==
    lastRefill.op = "Process" =>
        IF lastRefill.active0 /\ lastRefill.free0 > 0
        THEN /\ lastRefill.chunks # <<>>
             /\ SumReq(lastRefill.chunks) = lastRefill.free0
             /\ \A c \in Chunks : c.nBytes = c.req * OutChannels * BytesPerSample
        ELSE lastRefill.chunks = <<>>

\* a Process pass has refilled more than one chunk of free capacity, the
\* last chunk smaller than an engine tick
C7_Witness ==
    /\ lastRefill.op = "Process"
    /\ Len(lastRefill.chunks) >= 2
    /\ lastRefill.free0 < QueueSize
    /\ lastRefill.chunks[Len(lastRefill.chunks)].req < nBlockSize

\* C8: a write the queue rejects or takes only in part ends the refill, as
\* a failure that stops audio production: no chunk follows it and the
\* device is no longer active.
C8_RejectedWriteStopsAudio ==
    \A k \in 1 .. Len(lastRefill.chunks) :
        lastRefill.chunks[k].nAccepted < lastRefill.chunks[k].nBytes =>
            /\ k = Len(lastRefill.chunks)
            /\ ~devActive

-----------------------------------------------------------------------------
(* SpecFudi: bytes of a small alphabet arrive one at a time, a message at  *)
(* most MaxMsgLen bytes long, until MaxCount messages have been counted.   *)
(* SpecFudiLong: runs of one ordinary byte of any length arrive, up to and *)
(* past the size of the buffer.                                            *)

MaxMsgLen == 4

MaxCount == 2

Terminators == {";", LF}

OrdinaryBytes == {"a", "1", " ", NUL}

Counted == m_nMessagesReceived + m_nParseErrors

InitFudi == InitTable(SmallCard) /\ AudioIdle /\ FudiInit

NextFudi ==
    \/ \E c \in OrdinaryBytes :
          /\ Counted < MaxCount
          /\ m_nBufferPos < MaxMsgLen
          /\ Feed(c, [start |-> 0, send |-> 0])
    \/ \E c \in Terminators : \E eng \in EngineAnswers :
          /\ Counted < MaxCount
          /\ Feed(c, eng)
    \/ /\ Counted < MaxCount
       /\ Feed(CR, [start |-> 0, send |-> 0])

SpecFudi == InitFudi /\ [][NextFudi]_vars

LongBytes == {"a"}

NextFudiLong ==
    \/ \E c \in LongBytes :
          /\ Counted < MaxCount
          /\ Feed(c, [start |-> 0, send |-> 0])
    \/ \E eng \in EngineAnswers :
          /\ Counted < MaxCount
          /\ Feed(";", eng)
    \/ /\ Counted < MaxCount
       /\ Feed(CR, [start |-> 0, send |-> 0])

SpecFudiLong == InitFudi /\ [][NextFudiLong]_vars

-----------------------------------------------------------------------------
(* Claims about the FUDI parser *)

\* the engine calls that return a status, which is the call's last element
StatusCalls ==
    {"libpd_bang", "libpd_float", "libpd_symbol",
     "libpd_start_message", "libpd_finish_message"}

\* a message was handed to the engine and the engine accepted it
Dispatched(calls) ==
    /\ calls # <<>>
    /\ \A i \in 1 .. Len(calls) :
          calls[i][1] \in StatusCalls => calls[i][Len(calls[i])] = 0

\* C9: ProcessByte returns true if and only if the byte is a terminator
\* (';' or LF) arriving with a non-empty buffer and the completed message
\* was dispatched to the engine; every other byte, and every terminator
\* arriving with an empty buffer, returns false.
C9_TrueIffDispatched ==
    lastByte.c # "" =>
        (lastByte.ret <=> /\ lastByte.c \in Terminators
                          /\ lastByte.pos0 > 0
                          /\ Dispatched(lastByte.calls))

\* a terminator completed a message and the engine accepted it
C9_Witness ==
    /\ lastByte.ret
    /\ lastByte.c \in Terminators
    /\ lastByte.pos0 > 0
    /\ Dispatched(lastByte.calls)

\* C10: a stream of ordinary bytes with no terminator never dispatches a
\* message, whatever its length; the buffer never holds more than
\* FUDI_MAX_MESSAGE_LEN-1 (255) bytes, and each time a byte arrives with the
\* buffer full the buffer is emptied and the parse-error counter increases by
\* exactly one.
C10_OverflowResets ==
    /\ m_nBufferPos <= FUDI_MAX_MESSAGE_LEN - 1
    /\ lastByte.c \in LongBytes => lastByte.calls = <<>> /\ ~lastByte.ret
    /\ \A c \in LongBytes :
          LET r == ProcessByte(m_Buffer, m_nMessagesReceived, m_nParseErrors,
                               c, [start |-> 0, send |-> 0])
          IN /\ r.calls = <<>>
             /\ r.msgs = m_nMessagesReceived
             /\ IF m_nBufferPos = FUDI_MAX_MESSAGE_LEN - 1
                THEN r.buf = <<>> /\ r.errs = m_nParseErrors + 1
                ELSE r.buf = Append(m_Buffer, c) /\ r.errs = m_nParseErrors

\* an ordinary byte arrived with 255 bytes in the buffer and emptied it
C10_Witness ==
    /\ lastByte.c \in LongBytes
    /\ lastByte.pos0 = FUDI_MAX_MESSAGE_LEN - 1
    /\ m_Buffer = <<>>
    /\ m_nParseErrors > 0

-----------------------------------------------------------------------------
(* SpecFudiCorpus: the bytes of the messages of Corpus arrive one at a     *)
(* time; a terminator or a carriage return may arrive at any point, and    *)
(* the engine accepts or refuses what is sent to it.                       *)

Sp == <<" ">>

tFreq == <<"f", "r", "e", "q">>

tOsc == <<"o", "s", "c">>

tAmp == <<"a", "m", "p">>

tTrigger == <<"t">>

t440 == <<"4", "4", "0">>

t05 == <<"0", ".", "5">>

tNeg1e3 == <<"-", "1", "e", "3">>

t1x == <<"1", "x">>

tBangs == Bang \o <<"s">>

mOscFreq == tOsc \o Sp \o tFreq \o Sp \o t440 \o Sp \o tAmp \o Sp \o t05

Corpus ==
    { tFreq,
      tTrigger \o Sp \o Bang,
      tTrigger \o Sp \o tBangs,
      tFreq \o Sp \o t440,
      tFreq \o Sp \o t05,
      tFreq \o Sp \o tNeg1e3,
      tFreq \o Sp \o t1x,
      <<TAB>> \o tFreq \o Sp \o Sp \o t440 \o Sp,
      Sp \o Sp,
      mOscFreq,
      tTrigger \o Sp \o Bang \o Sp \o <<"1">>,
      <<"p", "d">> \o Sp \o <<"d", "s", "p">> \o Sp \o <<"1">> }

IsPrefix(p, m) == Len(p) <= Len(m) /\ SubSeq(m, 1, Len(p)) = p

NextFudiCorpus ==
    \/ \E msg \in Corpus :
          /\ Counted < MaxCount
          /\ IsPrefix(m_Buffer, msg)
          /\ m_nBufferPos < Len(msg)
          /\ Feed(msg[m_nBufferPos + 1], [start |-> 0, send |-> 0])
    \/ \E c \in Terminators : \E eng \in EngineAnswers :
          /\ Counted < MaxCount
          /\ Feed(c, eng)
    \/ /\ Counted < MaxCount
       /\ Feed(CR, [start |-> 0, send |-> 0])

SpecFudiCorpus == InitFudi /\ [][NextFudiCorpus]_vars

\* the tokens of the message in the buffer
Tokens == Tokenize(WorkCopy(m_Buffer))

\* the tokens of the corpus, whole or cut short, that are numbers, and the
\* value m * 10^e of each
NumberValue ==
    (<<"4">> :> [m |-> 4, e |-> 0]) @@ (<<"4", "4">> :> [m |-> 44, e |-> 0]) @@
    (t440 :> [m |-> 44, e |-> 1]) @@
    (<<"0">> :> [m |-> 0, e |-> 0]) @@ (<<"0", ".">> :> [m |-> 0, e |-> 0]) @@
    (t05 :> [m |-> 5, e |-> -1]) @@
    (<<"-", "1">> :> [m |-> -1, e |-> 0]) @@ (tNeg1e3 :> [m |-> -1, e |-> 3]) @@
    (<<"1">> :> [m |-> 1, e |-> 0])

\* C11: a completed message of one token sends a bang to the receiver; of
\* two tokens, a bang if the second is "bang", a float with its value if the
\* second is a number from end to end, else a symbol with the second token
\* as written; in each case that is the only engine call.
C11_OneOrTwoTokens ==
    \A eng \in EngineAnswers :
        LET r == ParseMessage(m_Buffer, eng) IN
        /\ Len(Tokens) = 1 =>
              r.calls = << <<"libpd_bang", Tokens[1], eng.send>> >>
        /\ Len(Tokens) = 2 =>
              r.calls = IF Tokens[2] = Bang
                        THEN << <<"libpd_bang", Tokens[1], eng.send>> >>
                        ELSE IF Tokens[2] \in DOMAIN NumberValue
                        THEN << <<"libpd_float", Tokens[1], NumberValue[Tokens[2]], eng.send>> >>
                        ELSE << <<"libpd_symbol", Tokens[1], Tokens[2], eng.send>> >>

\* "freq 440;" has sent the float 440 to freq
C11_Witness ==
    /\ lastByte.ret
    /\ lastByte.calls = << <<"libpd_float", tFreq, [m |-> 44, e |-> 1], 0>> >>

\* the argument calls expected for the tokens after the verb, in order
ArgCalls(toks) ==
    [k \in 1 .. (Len(toks) - 2) |->
        IF toks[k + 2] \in DOMAIN NumberValue
        THEN <<"libpd_add_float", NumberValue[toks[k + 2]]>>
        ELSE <<"libpd_add_symbol", toks[k + 2]>>]

\* the calls of one multi-argument message under (receiver, verb)
ListMessage(toks, eng) ==
    << <<"libpd_start_message", Len(toks) - 2, 0>> >> \o ArgCalls(toks)
        \o << <<"libpd_finish_message", toks[1], toks[2], eng.send>> >>

\* C12: every completed message of three or more tokens, whatever its
\* second token, is sent as one multi-argument message under (receiver,
\* second token) with all the remaining tokens, in order, each typed float
\* or symbol.
C12_SecondTokenIsVerb ==
    \A eng \in {e \in EngineAnswers : e.start = 0} :
        Len(Tokens) >= 3 => ParseMessage(m_Buffer, eng).calls = ListMessage(Tokens, eng)

\* the engine calls that send a message
SendCalls == {"libpd_bang", "libpd_float", "libpd_symbol", "libpd_finish_message"}

NumSent(calls) == Cardinality({i \in 1 .. Len(calls) : calls[i][1] \in SendCalls})

\* what "osc freq 440 amp 0.5;" sends
OscFreqCalls ==
    << <<"libpd_start_message", 3, 0>>,
       <<"libpd_add_float", [m |-> 44, e |-> 1]>>,
       <<"libpd_add_symbol", tAmp>>,
       <<"libpd_add_float", [m |-> 5, e |-> -1]>>,
       <<"libpd_finish_message", tOsc, tFreq, 0>> >>

\* C13: a terminator sends at most one message; "osc freq 440 amp 0.5;"
\* sends exactly one, to osc with verb freq and the arguments 440, amp, 0.5
\* in that order, and leaves nothing from which a second message is formed.
C13_OneMessagePerTerminator ==
    /\ NumSent(lastByte.calls) <= 1
    /\ \A c \in Terminators :
          /\ \A eng \in EngineAnswers :
                NumSent(ProcessByte(m_Buffer, m_nMessagesReceived, m_nParseErrors,
                                    c, eng).calls) <= 1
          /\ m_Buffer = mOscFreq =>
                LET r == ProcessByte(m_Buffer, m_nMessagesReceived, m_nParseErrors,
                                     c, [start |-> 0, send |-> 0])
                    r2 == ProcessByte(r.buf, r.msgs, r.errs, c, [start |-> 0, send |-> 0])
                IN /\ r.ret /\ r.calls = OscFreqCalls
                   /\ r.msgs = m_nMessagesReceived + 1
                   /\ r.buf = <<>>
                   /\ ~r2.ret /\ r2.calls = <<>> /\ r2.msgs = r.msgs

\* "osc freq 440 amp 0.5;" has been sent as one message
C13_Witness ==
    /\ lastByte.pos0 = Len(mOscFreq)
    /\ lastByte.ret
    /\ lastByte.calls = OscFreqCalls
    /\ m_Buffer = <<>>

\* the engine returned non-zero to one of the calls
Rejected(calls) ==
    \E i \in 1 .. Len(calls) :
        calls[i][1] \in StatusCalls /\ calls[i][Len(calls[i])] # 0

\* a parser as constructed
FreshParser == ParserState(<<>>, 0, 0)

\* C14: when the engine rejects a dispatch, m_nParseErrors grows by one,
\* m_nMessagesReceived stays, ProcessByte returns FALSE and the buffer is
\* empty; the next message is then dispatched as a fresh parser would.
C14_RejectionCounted ==
    /\ Rejected(lastByte.calls) => ~lastByte.ret /\ m_Buffer = <<>>
    /\ \A c \in Terminators : \A eng \in EngineAnswers :
          LET r == ProcessByte(m_Buffer, m_nMessagesReceived, m_nParseErrors, c, eng) IN
          Rejected(r.calls) =>
              /\ r.errs = m_nParseErrors + 1
              /\ r.msgs = m_nMessagesReceived
              /\ ~r.ret
              /\ r.buf = <<>>
              /\ \A msg \in Corpus :
                    LET a == ProcessBuffer(ParserState(r.buf, r.msgs, r.errs),
                                           Append(msg, c), [start |-> 0, send |-> 0])
                        f == ProcessBuffer(FreshParser, Append(msg, c),
                                           [start |-> 0, send |-> 0])
                    IN /\ a.calls = f.calls
                       /\ a.nMessages = f.nMessages
                       /\ a.buf = f.buf
                       /\ a.msgs = r.msgs + f.msgs
                       /\ a.errs = r.errs + f.errs

\* the engine has refused a message, and the message after it was sent
C14_Witness ==
    /\ m_nParseErrors = 1
    /\ m_nMessagesReceived = 1
    /\ lastByte.ret
    /\ lastByte.calls # <<>>

-----------------------------------------------------------------------------
(* SpecFileFaults: the file table over the short file, with the calls of   *)
(* the backing filesystem failing: an open of the call refused, or the     *)
(* call's first read returning FS_ERROR.  Opens come with any access flag  *)
(* and through barepd_fopen with any mode.                                 *)

Faults ==
    {NoFault, [open |-> 1, read |-> FALSE], [open |-> 2, read |-> FALSE],
     [open |-> 0, read |-> TRUE]}

\* O_RDONLY, O_WRONLY, O_RDWR
O_RDONLY == 0

O_WRONLY == 1

O_RDWR == 2

OpenFlags == {O_RDONLY, O_WRONLY, O_RDWR}

FopenModes == {<<"r">>, <<"r", "b">>, <<"r", "+">>, <<"w">>, <<"a">>, <<>>, NullPath}

\* the caller works with the first two handles of the table
FaultFds == {FD_OFFSET, FD_OFFSET + 1}

SomeFree == \E fd \in FaultFds : BadHandle(s_FileTable, fd)

FaultPaths == {<<"a">>, <<"n">>}

\* <<whence, offset>>
FaultSeeks == {<<0, 0>>, <<0, -1>>, <<2, 0>>}

StatPaths == FaultPaths \cup {NullPath, <<".", "/", "a">>, <<"/">>}

InitFileFaults == InitTable(SmallCard) /\ AudioIdle /\ FudiInit

NextFileFaults ==
    \/ \E path \in FaultPaths : \E oflag \in OpenFlags : \E flt \in Faults :
          /\ SomeFree
          /\ OpenWith(path, oflag, flt)
    \/ \E mode \in FopenModes :
          /\ SomeFree
          /\ Fopen(<<"a">>, mode, NoFault)
    \/ \E fd \in FaultFds \cup BadFds : Close(fd)
    \/ \E fd \in FaultFds \cup BadFds : \E flt \in Faults : Read(fd, FALSE, 1, flt)
    \/ \E fd \in FaultFds \cup BadFds : \E a \in FaultSeeks : \E flt \in Faults :
          Seek(fd, a[2], a[1], flt)
    \/ \E path \in StatPaths : \E flt \in Faults : Stat(path, flt)

SpecFileFaults == InitFileFaults /\ [][NextFileFaults]_vars

\* C15: a session is valid if and only if its backing handle is non-null,
\* after every Open, Read, Seek and Close, a Seek whose reopen fails included.
C15_ValidIffHandle ==
    \A i \in Slots : s_FileTable[i].bValid <=> s_FileTable[i].hFile # 0

-----------------------------------------------------------------------------
(* Further claims on the file table *)

\* the target of a seek as the integer the caller means
IntTarget(e, offset, whence) ==
    CASE whence = 0 -> offset
      [] whence = 1 -> e.nPosition + offset
      [] whence = 2 -> e.nSize + offset

\* a target brought into [0, size]
Clamped(t, nSize) == IF t < 0 THEN 0 ELSE IF t > nSize THEN nSize ELSE t

\* C16: Seek computes its target from whence (0: offset, 1: current offset
\* + offset, 2: size + offset), brings it into [0, size] (below 0 gives 0,
\* above size gives size) and returns the session's new offset.
C16_SeekClampsBothEnds ==
    \A fd \in SlotFds : \A a \in {x \in SeekInputs : x[1] \in {0, 1, 2}} :
        ~BadHandle(s_FileTable, fd) =>
            LET e == s_FileTable[fd - FD_OFFSET]
                r == pd_fileio_lseek(s_FileTable, fsOpen, fd, a[2], a[1], NoFault)
            IN /\ r.ret = Clamped(IntTarget(e, a[2], a[1]), e.nSize)
               /\ r.tab[fd - FD_OFFSET].nPosition = r.ret

\* the flags and modes that ask for write access
WriteFlags == {O_WRONLY, O_RDWR}

WriteModes == {<<"r", "+">>, <<"w">>, <<"a">>}

\* C17: an Open that asks for write access fails: no handle is returned, no
\* slot is taken and no backing file is opened.
C17_WriteOpenFails ==
    /\ \A path \in FaultPaths : \A oflag \in WriteFlags :
          LET r == barepd_open(s_FileTable, fsOpen, path, oflag, NoFault)
          IN r.ret = -1 /\ r.tab = s_FileTable /\ r.fo = fsOpen
    /\ \A mode \in WriteModes :
          LET r == barepd_fopen(s_FileTable, fsOpen, <<"a">>, mode, NoFault)
          IN r.ret = 0 /\ r.tab = s_FileTable /\ r.fo = fsOpen

\* one of the call's FileOpen returned 0
OpenFailed(calls) ==
    \E i \in 1 .. Len(calls) : calls[i][1] = "FileOpen" /\ calls[i][3] = 0

\* C18: when the size-measuring open or the reading open of the backing
\* file fails, Open fails, no slot becomes valid, no session's size, offset
\* or handle changes and no backing handle opened by the call stays open.
C18_FailedOpenLeavesNothing ==
    \A path \in FaultPaths : \A oflag \in OpenFlags : \A flt \in Faults :
        LET r == barepd_open(s_FileTable, fsOpen, path, oflag, flt) IN
        OpenFailed(r.calls) =>
            /\ r.ret = -1
            /\ \A i \in Slots :
                  /\ r.tab[i].bValid = s_FileTable[i].bValid
                  /\ r.tab[i].nSize = s_FileTable[i].nSize
                  /\ r.tab[i].nPosition = s_FileTable[i].nPosition
                  /\ r.tab[i].hFile = s_FileTable[i].hFile
            /\ OpenHandles(r.fo) = OpenHandles(fsOpen)

\* an Open has failed beside a session that is open
C18_Witness ==
    /\ lastCall.op = "open"
    /\ lastCall.ret = -1
    /\ NumValid(s_FileTable) = 1
    /\ Cardinality(OpenHandles(fsOpen)) = 1
    /\ \E i \in Slots : ~s_FileTable[i].bValid /\ s_FileTable[i].szPath = <<"a">>

\* what the backing read delivers to a Read of count bytes
Delivered(e, count, flt) ==
    LET b == FileRead(fsOpen, e.hFile, count, flt.read)
    IN IF b.n = FS_ERROR THEN 0 ELSE b.n

NotOpen(fd) ==
    \/ fd < FD_OFFSET
    \/ fd >= FD_OFFSET + MAX_OPEN_FILES
    \/ ~s_FileTable[fd - FD_OFFSET].bValid

Unchanged(r) == r.ret = -1 /\ r.calls = <<>> /\ r.tab = s_FileTable /\ r.fo = fsOpen

\* C20: Read, Seek and Close on a handle that is not open fail, call the
\* backing filesystem not at all and leave every session as it was.
C20_BadHandleRejected ==
    \A fd \in AllFds \cup BadFds :
        NotOpen(fd) =>
            /\ Unchanged(pd_fileio_close(s_FileTable, fsOpen, fd))
            /\ \A count \in {0, 1, 5} : \A bufNull \in BOOLEAN :
                  Unchanged(pd_fileio_read(s_FileTable, fsOpen, fd, bufNull, count, NoFault))
            /\ \A a \in FaultSeeks :
                  Unchanged(pd_fileio_lseek(s_FileTable, fsOpen, fd, a[2], a[1], NoFault))

\* a Close of the first handle, opened and closed before, has failed
C20_Witness ==
    /\ lastCall.op = "close"
    /\ lastCall.fd = FD_OFFSET
    /\ lastCall.ret = -1
    /\ ~BadHandle(s_FileTable, FD_OFFSET + 1)

\* C27: Stat never changes the descriptor table and takes no slot, closes
\* the one backing handle it opens, and returns success exactly when the
\* backing open succeeds.
C27_StatLeavesNoTrace ==
    /\ \A path \in StatPaths : \A flt \in Faults :
          LET r == pd_fileio_stat(s_FileTable, fsOpen, path, flt)
              opened == {i \in 1 .. Len(r.calls) :
                            r.calls[i][1] = "FileOpen" /\ r.calls[i][3] # 0}
          IN  /\ r.tab = s_FileTable
              /\ r.fo = fsOpen
              /\ Len(r.calls) <= 2
              /\ Cardinality({i \in 1 .. Len(r.calls) : r.calls[i][1] = "FileOpen"}) <= 1
              /\ \A i \in opened :
                    i = 1 /\ Len(r.calls) = 2 /\ r.calls[2] = <<"FileClose", r.calls[1][3]>>
              /\ r.ret \in {0, -1}
              /\ r.ret = 0 <=> opened # {}
    /\ lastCall.op = "stat" => lastCall.ret \in {0, -1}

\* a Stat of an existing file succeeded while a session was open and the
\* filesystem holds that session's handle only
C27_Witness ==
    /\ lastCall.op = "stat"
    /\ lastCall.ret = 0
    /\ NumValid(s_FileTable) = 1
    /\ Cardinality({h \in FsHandles : fsOpen[h] # NoFile}) = 1

\* the calls from index i on are discard-reads on handle h, each of at most
\* SKIP_BUF_SIZE bytes, that deliver n bytes in all
RECURSIVE DiscardReads(_, _, _, _)
DiscardReads(calls, i, h, n) ==
    IF i > Len(calls) THEN n = 0
    ELSE /\ calls[i][1] = "FileRead"
         /\ calls[i][2] = h
         /\ calls[i][3] <= SKIP_BUF_SIZE
         /\ calls[i][4] > 0
         /\ DiscardReads(calls, i + 1, h, n - calls[i][4])

\* C28: the backend calls of a Seek depend only on where the target lies
\* relative to the current offset.  Behind it: close, reopen, discard-reads
\* that total the target.  Ahead of it: discard-reads only, that total
\* target - current.  Equal: no backend call, the session unchanged.
C28_SeekCalls ==
    \A fd \in SlotFds : \A a \in SeekInputs :
        LET e == s_FileTable[fd - FD_OFFSET]
            r == pd_fileio_lseek(s_FileTable, fsOpen, fd, a[2], a[1], NoFault)
            target == r.ret
        IN  (e.bValid /\ a[1] \in {0, 1, 2}) =>
              /\ target >= 0
              /\ target < e.nPosition =>
                    /\ Len(r.calls) >= 2
                    /\ r.calls[1] = <<"FileClose", e.hFile>>
                    /\ r.calls[2][1] = "FileOpen" /\ r.calls[2][2] = e.szPath
                    /\ r.calls[2][3] = r.tab[fd - FD_OFFSET].hFile
                    /\ DiscardReads(r.calls, 3, r.calls[2][3], target)
              /\ target > e.nPosition =>
                    /\ r.calls # <<>>
                    /\ DiscardReads(r.calls, 1, e.hFile, target - e.nPosition)
                    /\ r.tab[fd - FD_OFFSET].hFile = e.hFile
              /\ target = e.nPosition =>
                    /\ r.calls = <<>>
                    /\ r.tab = s_FileTable
                    /\ r.fo = fsOpen

\* a Seek of the long file went back from its end into the second skip
\* buffer: two discard-reads after the reopen
C28_Witness ==
    /\ IsBigCard
    /\ lastCall.op = "lseek"
    /\ lastCall.pos0 = BigSize
    /\ lastCall.ret = SKIP_BUF_SIZE + 1

\* the index of the first call of the list that is c (0: none)
IndexOf(calls, c) ==
    IF \E i \in 1 .. Len(calls) : calls[i] = c
    THEN CHOOSE i \in 1 .. Len(calls) : calls[i] = c /\ \A j \in 1 .. (i - 1) : calls[j] # c
    ELSE 0

OthersKept(r, fd) ==
    \A j \in Slots :
        (j # fd - FD_OFFSET /\ s_FileTable[j].bValid) =>
            /\ r.tab[j] = s_FileTable[j]
            /\ s_FileTable[j].hFile # 0 =>
                  r.fo[s_FileTable[j].hFile] = fsOpen[s_FileTable[j].hFile]

\* C30: Open, Read, Seek and Close on one handle never change another
\* valid session.
C30_OtherSessionsKept ==
    /\ \A path \in FaultPaths : \A oflag \in OpenFlags : \A flt \in Faults :
          OthersKept(barepd_open(s_FileTable, fsOpen, path, oflag, flt), -1)
    /\ \A fd \in FaultFds \cup BadFds :
          /\ OthersKept(pd_fileio_close(s_FileTable, fsOpen, fd), fd)
          /\ \A flt \in Faults : \A count \in {1, 5} :
                OthersKept(pd_fileio_read(s_FileTable, fsOpen, fd, FALSE, count, flt), fd)
          /\ \A flt \in Faults : \A a \in FaultSeeks \cup {<<1, 1>>} :
                OthersKept(pd_fileio_lseek(s_FileTable, fsOpen, fd, a[2], a[1], flt), fd)

\* with two sessions open, the first at offset 1, the second was sought
\* back to the start of the file
C30_Witness ==
    /\ lastCall.op = "lseek"
    /\ lastCall.fd = FD_OFFSET + 1
    /\ lastCall.pos0 > 0
    /\ lastCall.ret = 0
    /\ s_FileTable[0].bValid /\ s_FileTable[0].hFile # 0
    /\ s_FileTable[0].nPosition = 1
    /\ fsOpen[s_FileTable[0].hFile].pos = 1

-----------------------------------------------------------------------------
(* SpecSamples: the sound devices convert engine samples, among them       *)
(* values beyond full scale, infinities and NaN, over PWM devices of       *)
(* several ranges.                                                         *)

SampleDenominator == 8

SampleValues ==
    {Num(n, SampleDenominator) : n \in -12 .. 12}
        \cup {Num(1, 32767), Num(-1, 32767), Num(32766, 32767), Num(-99, 100),
              Num(1000, 1), Num(-1000, 1), Inf(1), Inf(-1), NaN}

PWMRanges ==
    {<<0, 1>>, <<0, 2>>, <<0, 5>>, <<0, 1133>>, <<0, 4095>>, <<1, 2>>, <<3, 10>>,
     <<-1, 0>>, <<-3, 0>>, <<-4, -1>>, <<-5, 4>>, <<-32768, 32767>>}

InitSamples ==
    /\ InitTable(SmallCard)
    /\ FudiInit
    /\ \E range \in PWMRanges :
          AudioInitRange(DEFAULT_SAMPLE_RATE, DEFAULT_BLOCKSIZE, range)

NextSamples ==
    \/ \E sample \in SampleValues : ConvertI2S(sample)
    \/ \E sample \in SampleValues : ConvertPWM(sample)
    \/ PadPWM

SpecSamples == InitSamples /\ [][NextSamples]_vars

\* C21: every integer sample a refill emits lies in the destination range:
\* an I2S sample within [-32767, 32767], a PWM sample within
\* [GetRangeMin, GetRangeMax], for every engine value (values above 1.0 and
\* below -1.0 are clamped first) and every range min < max.
C21_SamplesInRange ==
    /\ \A sample \in SampleValues :
          /\ \A v \in I2SSample(sample) : -I2S_FULL_SCALE <= v /\ v <= I2S_FULL_SCALE
          /\ \A v \in PWMSample(sample, pwmRange[1], pwmRange[2]) :
                pwmRange[1] <= v /\ v <= pwmRange[2]
    /\ pwmRange[1] <= PWMSilence(pwmRange[1], pwmRange[2])
    /\ PWMSilence(pwmRange[1], pwmRange[2]) <= pwmRange[2]
    /\ lastSample.dev = "I2S" =>
          -I2S_FULL_SCALE <= lastSample.out /\ lastSample.out <= I2S_FULL_SCALE
    /\ lastSample.dev = "PWM" =>
          pwmRange[1] <= lastSample.out /\ lastSample.out <= pwmRange[2]

\* a sample above full scale was converted for a PWM device of an odd,
\* negative range
C21_Witness ==
    /\ lastSample.dev = "PWM"
    /\ lastSample.sample = Num(12, SampleDenominator)
    /\ pwmRange = <<-4, -1>>
    /\ lastSample.out = -1

-----------------------------------------------------------------------------
(* SpecFudiBuffer: the parser fed whole buffers, of one or two bytes and   *)
(* a few longer ones that hold several messages and carriage returns.      *)

BufferBytes == {"a", " ", ";", CR, LF}

LongBuffers ==
    { <<"a", " ", "1", ";", "a", ";">>,
      <<"a", CR, ";", CR, LF, "a", " ", CR, "a", LF>>,
      <<CR, CR, CR>>,
      <<"a", " ", "a", " ", "1", CR, " ", "1", ";">> }

BufferInputs ==
    {<<c>> : c \in BufferBytes} \cup {<<c, d>> : c \in BufferBytes, d \in BufferBytes}
        \cup LongBuffers

NextFudiBuffer ==
    \E pBuffer \in BufferInputs : \E eng \in EngineAnswers :
        /\ Counted < MaxCount
        /\ m_nBufferPos < MaxMsgLen
        /\ FeedBuffer(pBuffer, eng)

SpecFudiBuffer == InitFudi /\ [][NextFudiBuffer]_vars

\* the parser now
Parser == ParserState(m_Buffer, m_nMessagesReceived, m_nParseErrors)

\* ProcessByte on each byte in turn, from the last byte back
RECURSIVE ByteFold(_, _, _)
ByteFold(st, bytes, eng) ==
    IF bytes = <<>> THEN [st |-> st, nTrue |-> 0, calls |-> <<>>]
    ELSE LET f == ByteFold(st, Take(bytes, Len(bytes) - 1), eng)
             r == ProcessByte(f.st.buf, f.st.msgs, f.st.errs, bytes[Len(bytes)], eng)
         IN [st |-> [buf |-> r.buf, msgs |-> r.msgs, errs |-> r.errs],
             nTrue |-> f.nTrue + (IF r.ret THEN 1 ELSE 0),
             calls |-> f.calls \o r.calls]

\* the state a ProcessBuffer leaves is the state the next one starts from
Resume(r) == ParserState(r.buf, r.msgs, r.errs)

\* C22: ProcessBuffer is a fold of ProcessByte: it returns the number of
\* bytes for which ProcessByte returned true, and a stream cut into two
\* buffers at any position gives the dispatches, the counters and the final
\* buffer of the stream in one buffer.
C22_BufferIsFold ==
    \A pBuffer \in BufferInputs : \A eng \in EngineAnswers :
        LET whole == ProcessBuffer(Parser, pBuffer, eng)
            f == ByteFold([buf |-> m_Buffer, msgs |-> m_nMessagesReceived,
                           errs |-> m_nParseErrors], pBuffer, eng)
        IN  /\ whole.nMessages = f.nTrue
            /\ whole.calls = f.calls
            /\ Resume(whole) = Resume(f.st)
            /\ \A k \in 0 .. Len(pBuffer) :
                  LET first == ProcessBuffer(Parser, Take(pBuffer, k), eng)
                      second == ProcessBuffer(Resume(first), Drop(pBuffer, k), eng)
                  IN  /\ first.calls \o second.calls = whole.calls
                      /\ first.nMessages + second.nMessages = whole.nMessages
                      /\ Resume(second) = Resume(whole)

\* a buffer holding two messages was processed and returned 2
C22_Witness ==
    /\ lastBuffer.pBuffer = <<"a", " ", "1", ";", "a", ";">>
    /\ lastBuffer.ret = 2
    /\ NumSent(lastBuffer.calls) = 2

RECURSIVE StripCR(_)
StripCR(bytes) ==
    IF bytes = <<>> THEN <<>>
    ELSE IF Head(bytes) = CR THEN StripCR(Tail(bytes))
    ELSE <<Head(bytes)>> \o StripCR(Tail(bytes))

\* C26: carriage returns are never accumulated and never terminate a
\* message: a stream and the stream without its carriage returns give the
\* same dispatches, counters, result and buffer.
C26_CarriageReturnsIgnored ==
    /\ CR \notin {m_Buffer[i] : i \in 1 .. Len(m_Buffer)}
    /\ \A pBuffer \in BufferInputs : \A eng \in EngineAnswers :
          LET with == ProcessBuffer(Parser, pBuffer, eng)
              without == ProcessBuffer(Parser, StripCR(pBuffer), eng)
          IN  with = without

\* a buffer with carriage returns inside and between two messages was
\* processed: both messages were dispatched
C26_Witness ==
    /\ lastBuffer.pBuffer = <<"a", CR, ";", CR, LF, "a", " ", CR, "a", LF>>
    /\ lastBuffer.ret = 2
    /\ m_Buffer = <<>>

-----------------------------------------------------------------------------
(* SpecFudiMany: the parser fed messages of FUDI_MAX_ATOMS tokens and      *)
(* more: "r v 1 a 2 a 3 ...", one byte per token.                          *)

DigitChar == <<"1", "2", "3", "4", "5", "6", "7", "8", "9">>

\* the k-th token of the message: the receiver, the verb, then digits and
\* symbols in turn
ManyToken(k) ==
    IF k = 1 THEN "r"
    ELSE IF k = 2 THEN "v"
    ELSE IF k % 2 = 1 THEN DigitChar[(k % 9) + 1]
    ELSE "a"

\* the message of n tokens
ManyMessage(n) ==
    [i \in 1 .. (2 * n - 1) |-> IF i % 2 = 0 THEN " " ELSE ManyToken((i + 1) \div 2)]

ExcessTokens == 3

ManyCorpus == {ManyMessage(n) : n \in (FUDI_MAX_ATOMS - 1) .. (FUDI_MAX_ATOMS + ExcessTokens)}

NextFudiMany ==
    \/ \E msg \in ManyCorpus :
          /\ Counted < MaxCount
          /\ IsPrefix(m_Buffer, msg)
          /\ m_nBufferPos < Len(msg)
          /\ Feed(msg[m_nBufferPos + 1], [start |-> 0, send |-> 0])
    \/ \E c \in Terminators : \E eng \in EngineAnswers :
          /\ Counted < MaxCount
          /\ Feed(c, eng)

SpecFudiMany == InitFudi /\ [][NextFudiMany]_vars

\* every token of the buffer, kept or not
AllTokens == StrTok(m_Buffer, FirstAt(m_Buffer, 1, FALSE), <<>>)

\* the call that adds the one-byte token tok
ManyArgCall(tok) ==
    IF tok[1] \in Digits
    THEN <<"libpd_add_float", [m |-> DigitVal(tok[1]), e |-> 0]>>
    ELSE <<"libpd_add_symbol", tok>>

\* the calls of the message made of the first FUDI_MAX_ATOMS tokens
FirstAtomsCalls(toks, eng) ==
    << <<"libpd_start_message", FUDI_MAX_ATOMS - 2, eng.start>> >>
        \o (IF eng.start # 0 THEN <<>>
            ELSE [k \in 1 .. (FUDI_MAX_ATOMS - 2) |-> ManyArgCall(toks[k + 2])]
                    \o << <<"libpd_finish_message", toks[1], toks[2], eng.send>> >>)

\* C23: a message of more than FUDI_MAX_ATOMS (32) tokens is dispatched
\* with its first 32 tokens only (receiver, verb, 30 arguments), no token
\* is stored past the 32nd, and the message that follows is parsed as by a
\* fresh parser.
C23_ExcessTokensDropped ==
    /\ Len(Tokens) <= FUDI_MAX_ATOMS
    /\ Len(AllTokens) > FUDI_MAX_ATOMS =>
          \A c \in Terminators : \A eng \in EngineAnswers :
              LET r == ProcessByte(m_Buffer, m_nMessagesReceived, m_nParseErrors, c, eng)
              IN  /\ r.calls = FirstAtomsCalls(AllTokens, eng)
                  /\ r.ret <=> (eng.start = 0 /\ eng.send = 0)
                  /\ r.buf = <<>>
                  /\ \A msg \in Corpus :
                        LET a == ProcessBuffer(ParserState(r.buf, r.msgs, r.errs),
                                               Append(msg, c), eng)
                            f == ProcessBuffer(FreshParser, Append(msg, c), eng)
                        IN  /\ a.calls = f.calls
                            /\ a.nMessages = f.nMessages
                            /\ a.buf = f.buf

\* the message of FUDI_MAX_ATOMS + ExcessTokens tokens was terminated and
\* dispatched: one start, 30 arguments, one finish
C23_Witness ==
    /\ lastByte.c = ";"
    /\ lastByte.pos0 = 2 * (FUDI_MAX_ATOMS + ExcessTokens) - 1
    /\ lastByte.ret
    /\ Len(lastByte.calls) = FUDI_MAX_ATOMS
    /\ m_Buffer = <<>>

-----------------------------------------------------------------------------
(* SpecFudiSend: the encoders called with short and long receivers and     *)
(* payloads, with and without a callback, and their text fed back to the   *)
(* parser.                                                                 *)

\* a name of n bytes
LongName(n) == [i \in 1 .. n |-> "a"]

\* the receivers: x, freq, and names that with a one-byte payload fill the
\* scratch buffer exactly and overflow it by one byte
SendReceivers ==
    {<<"x">>, tFreq, LongName(FUDI_MAX_MESSAGE_LEN - 5), LongName(FUDI_MAX_MESSAGE_LEN - 4)}

\* 3.5, 440, 0.5, -1000, 0, 100000, 1e6, 0.0001, 0.00001, 123456, 1234567,
\* 16777215, 0.015625 (1/64), 1.0078125 (1 + 1/128)
SendValues ==
    {[m |-> 35, e |-> -1], [m |-> 44, e |-> 1], [m |-> 5, e |-> -1], [m |-> -1, e |-> 3],
     [m |-> 0, e |-> 0], [m |-> 1, e |-> 5], [m |-> 1, e |-> 6], [m |-> 1, e |-> -4],
     [m |-> 1, e |-> -5], [m |-> 123456, e |-> 0], [m |-> 1234567, e |-> 0],
     [m |-> 16777215, e |-> 0], [m |-> 15625, e |-> -6], [m |-> 10078125, e |-> -7]}

SendSymbols == {tOsc, <<"1">>, LongName(FUDI_MAX_MESSAGE_LEN)}

SendMessages == {tFreq \o Sp \o t440, tOsc \o Sp \o tFreq \o Sp \o t440}

\* the longest text fed back
MaxFeedBack == 16

\* the text the callback was handed arrives at the parser
FeedBack ==
    /\ Len(lastSent.out) = 1
    /\ Len(lastSent.out[1]) <= MaxFeedBack
    /\ m_Buffer = <<>>
    /\ Counted = 0
    /\ FeedBuffer(lastSent.out[1], [start |-> 0, send |-> 0])

NextFudiSend ==
    \/ \E pCallback \in BOOLEAN : SetOutputCallback(pCallback)
    \/ \E r \in SendReceivers : \E v \in SendValues : CallSendFloat(r, v)
    \/ \E r \in SendReceivers : CallSendBang(r)
    \/ \E r \in SendReceivers : \E sym \in SendSymbols : CallSendSymbol(r, sym)
    \/ \E r \in SendReceivers : \E msg \in SendMessages : CallSendMessage(r, msg)
    \/ FeedBack

SpecFudiSend == InitFudi /\ [][NextFudiSend]_vars

\* the payload as text
PayloadText == IF lastSent.op = "SendFloat" THEN GFormat(lastSent.payload) ELSE lastSent.payload

\* C24: with a callback registered every SendFloat, SendBang, SendSymbol
\* and SendMessage hands the callback, once, the text "receiver payload"
\* followed by ';' and a newline, whatever the lengths of receiver and
\* payload; with no callback registered it does nothing.
C24_OneTextPerSend ==
    lastSent.op # "none" =>
        IF lastSent.cb
        THEN lastSent.out = << lastSent.receiver \o <<" ">> \o PayloadText \o <<";", LF>> >>
        ELSE lastSent.out = <<>>

\* the text of the last SendFloat was fed back to the parser
FloatFedBack ==
    /\ lastSent.op = "SendFloat"
    /\ Len(lastSent.out) = 1
    /\ lastBuffer.pBuffer = lastSent.out[1]

-----------------------------------------------------------------------------
(* SpecFilePaths: the card holds a file in a sub-folder, a file whose path *)
(* is MAX_PATH_LEN bytes long and the file named by the first              *)
(* MAX_PATH_LEN - 1 bytes of that path; the caller opens them under paths  *)
(* with and without the prefixes "./" and "/", reads and seeks.            *)

SubFile == <<"d", "/", "a">>

FullPath == LongName(MAX_PATH_LEN)

PathCard ==
    (SubFile :> SmallFile) @@ (FullPath :> <<67, 68, 69>>)
        @@ (LongName(MAX_PATH_LEN - 1) :> <<70>>)

DotSlash == <<".", "/">>

PathInputs ==
    {SubFile, DotSlash \o SubFile, <<"/">> \o SubFile, <<"/", "/">> \o SubFile,
     DotSlash \o <<"/">> \o SubFile, DotSlash \o DotSlash \o SubFile,
     DotSlash, <<".">>, <<"/">>, <<"/", "/">>, <<".", "/", "/">>, <<>>, NullPath,
     DotSlash \o FullPath, LongName(MAX_PATH_LEN - 1)}

\* the sessions open at a time on these paths
PathSessions == MaxSessions - 1

PathFds == FD_OFFSET .. (FD_OFFSET + PathSessions - 1)

\* <<whence, offset>>
PathSeeks == {<<0, 0>>, <<0, 1>>, <<2, 0>>}

InitFilePaths == InitTable(PathCard) /\ AudioIdle /\ FudiInit

NextFilePaths ==
    \/ \E path \in PathInputs :
          /\ NumValid(s_FileTable) < PathSessions
          /\ Open(path, NoFault)
    \/ \E fd \in PathFds : Close(fd)
    \/ \E fd \in PathFds : Read(fd, FALSE, 1, NoFault)
    \/ \E fd \in PathFds : \E a \in PathSeeks : Seek(fd, a[2], a[1], NoFault)

SpecFilePaths == InitFilePaths /\ [][NextFilePaths]_vars

\* a path without one leading "./"
StripDotSlash(p) ==
    IF Len(p) >= 2 /\ SubSeq(p, 1, 2) = DotSlash THEN SubSeq(p, 3, Len(p)) ELSE p

\* the number of "/" a path starts with
LeadingSlashes(p) == Cardinality({k \in 1 .. Len(p) : \A i \in 1 .. k : p[i] = "/"})

\* a path with one leading "./" removed, then every leading "/"
Stripped(path) ==
    SubSeq(StripDotSlash(path), LeadingSlashes(StripDotSlash(path)) + 1,
           Len(StripDotSlash(path)))

\* the names an operation passed to the filesystem's open
NamesOpened(calls) ==
    {calls[i][2] : i \in {j \in 1 .. Len(calls) : calls[j][1] = "FileOpen"}}

\* C31: Open passes to the filesystem the path with one leading "./" and
\* then every leading "/" removed, sub-folders kept; a path that is null or
\* comes out empty fails with the table and the filesystem untouched: no
\* slot is written and no filesystem call is made.
C31_OpenPassesStrippedPath ==
    \A path \in PathInputs :
        LET r == barepd_open(s_FileTable, fsOpen, path, O_RDONLY, NoFault) IN
        IF path = NullPath \/ Stripped(path) = <<>>
        THEN /\ r.ret = -1
             /\ r.calls = <<>>
             /\ r.tab = s_FileTable
             /\ r.fo = fsOpen
        ELSE NumValid(s_FileTable) < MAX_OPEN_FILES =>
                 /\ r.calls # <<>>
                 /\ NamesOpened(r.calls) = {Stripped(path)}

\* an Open has returned a session on the file in the sub-folder
C31_Witness ==
    /\ lastCall.op = "open"
    /\ lastCall.ret >= FD_OFFSET
    /\ s_FileTable[lastCall.ret - FD_OFFSET].bValid
    /\ s_FileTable[lastCall.ret - FD_OFFSET].szPath = SubFile

\* C39: a backward Seek reopens the file that Open opened: in every
\* session the path a Seek to the start passes to the filesystem's open is
\* the path of the file the session's handle is open on, whatever its length.
C39_ReopenSamePath ==
    \A fd \in PathFds :
        LET e == s_FileTable[fd - FD_OFFSET]
            r == pd_fileio_lseek(s_FileTable, fsOpen, fd, 0, 0, NoFault)
        IN (e.bValid /\ e.hFile # 0) =>
               /\ e.szPath = fsOpen[e.hFile].path
               /\ NamesOpened(r.calls) \subseteq {fsOpen[e.hFile].path}

-----------------------------------------------------------------------------
(* Claims on the dispatch of multi-argument messages, SpecFudiCorpus *)

AddCalls == {"libpd_add_float", "libpd_add_symbol"}

\* the calls of a list message follow the engine's protocol for the tokens
\* toks: start_message(k), k = token count - 2; if that is refused nothing
\* more; else the k arguments in token order, then finish_message
FollowsProtocol(calls, toks) ==
    LET k == Len(toks) - 2 IN
    /\ k >= 1
    /\ calls[1][1] = "libpd_start_message" /\ calls[1][2] = k
    /\ IF calls[1][3] # 0 THEN Len(calls) = 1
       ELSE /\ Len(calls) = k + 2
            /\ \A i \in 1 .. k :
                  /\ calls[i + 1][1] \in AddCalls
                  /\ calls[i + 1] = ArgCalls(toks)[i]
            /\ calls[k + 2][1] = "libpd_finish_message"
            /\ calls[k + 2][2] = toks[1]
            /\ calls[k + 2][3] = toks[2]

\* C32: a message that starts, adds to or finishes a list follows the
\* protocol: one start_message(k) with k the token count less 2, then k
\* add_float / add_symbol calls in token order, then one finish_message
\* (receiver, verb); when start_message fails no add and no finish follows.
C32_StartAddFinish ==
    \A eng \in EngineAnswers :
        LET calls == ParseMessage(m_Buffer, eng).calls IN
        (\E i \in 1 .. Len(calls) :
             calls[i][1] \in AddCalls \cup {"libpd_start_message", "libpd_finish_message"})
            => FollowsProtocol(calls, Tokens)

\* a message of three arguments was started, its arguments added and finished
C32_Witness ==
    /\ Len(lastByte.calls) = 5
    /\ lastByte.calls[1] = <<"libpd_start_message", 3, 0>>
    /\ lastByte.calls[2][1] = "libpd_add_float"
    /\ lastByte.calls[3][1] = "libpd_add_symbol"
    /\ lastByte.calls[5][1] = "libpd_finish_message"

-----------------------------------------------------------------------------
(* Claims on the statistics counters, SpecFudiCorpus *)

\* the buffer holds a byte that is neither a space nor a tab
HasToken(buf) == \E i \in 1 .. Len(buf) : buf[i] \notin {" ", TAB}

\* a step of the parser: neither counter decreases, and a terminator that
\* completes a message of at least one token adds one to exactly one of them
CountersStep ==
    /\ m_nMessagesReceived' >= m_nMessagesReceived
    /\ m_nParseErrors' >= m_nParseErrors
    /\ (lastByte'.c \in Terminators /\ lastByte'.pos0 = m_nBufferPos /\ HasToken(m_Buffer)) =>
           (m_nMessagesReceived' - m_nMessagesReceived)
               + (m_nParseErrors' - m_nParseErrors) = 1

\* C33: both counters are 0 at construction; over the bytes fed to a parser
\* neither ever decreases, and each completed message of at least one token
\* increases exactly one of the two by exactly one.
C33_CountersMonotonic ==
    /\ m_nMessagesReceived = 0 /\ m_nParseErrors = 0
    /\ [][CountersStep]_vars

\* one message was counted as received and a later one as an error
C33_Witness ==
    /\ m_nMessagesReceived = 1
    /\ m_nParseErrors = 1
    /\ ~lastByte.ret
    /\ lastByte.c \in Terminators
    /\ lastByte.pos0 > 0

-----------------------------------------------------------------------------
(* Claims on messages without a token, SpecFudiCorpus *)

\* C34 as stated: ParseMessage is never run on a message of zero tokens:
\* whenever a terminator triggers parsing, the buffer holds a token.
C34_AsStated ==
    \A c \in Terminators : RunsParser(m_Buffer, c) => HasToken(m_Buffer)

\* C34 amended: a terminator arriving on a buffer that is not empty runs
\* ParseMessage also when the buffer holds nothing but spaces and tabs;
\* ParseMessage then finds zero tokens, calls the engine not at all, changes
\* neither counter and returns false, and the buffer is emptied.
C34_BlankMessageDropped ==
    \A c \in Terminators : \A eng \in EngineAnswers :
        (RunsParser(m_Buffer, c) /\ ~HasToken(m_Buffer)) =>
            LET p == ParseMessage(m_Buffer, eng)
                r == ProcessByte(m_Buffer, m_nMessagesReceived, m_nParseErrors, c, eng)
            IN /\ p.calls = <<>> /\ ~p.ret
               /\ r.calls = <<>> /\ ~r.ret
               /\ r.msgs = m_nMessagesReceived
               /\ r.errs = m_nParseErrors
               /\ r.buf = <<>>

\* a terminator completed a message of spaces: nothing was sent or counted
C34_Witness ==
    /\ lastByte.c \in Terminators
    /\ lastByte.pos0 > 0
    /\ lastByte.calls = <<>>
    /\ ~lastByte.ret
    /\ m_Buffer = <<>>
    /\ Counted = 0

-----------------------------------------------------------------------------
(* Claims on what follows an overflow, SpecFudiLong *)

\* the bytes that follow the overflow, up to the terminator
TailMessages == {<<"a">>, tFreq \o Sp \o t440, tTrigger \o Sp \o Bang, mOscFreq}

\* C40: after an overflow the parser keeps no memory of it: the byte that
\* overflowed is dropped with the buffered bytes and one parse error is
\* counted; the bytes that follow, up to the next terminator, are parsed as
\* a message of their own, as a parser just constructed parses them, so the
\* tail of an over-long message is dispatched.
C40_TailParsedAlone ==
    m_nBufferPos = FUDI_MAX_MESSAGE_LEN - 1 =>
        \A c \in LongBytes :
            LET r == ProcessByte(m_Buffer, m_nMessagesReceived, m_nParseErrors,
                                 c, [start |-> 0, send |-> 0])
            IN /\ r.buf = <<>>
               /\ r.errs = m_nParseErrors + 1
               /\ r.msgs = m_nMessagesReceived
               /\ \A tail \in TailMessages : \A t \in Terminators : \A eng \in EngineAnswers :
                     LET a == ProcessBuffer(ParserState(r.buf, r.msgs, r.errs),
                                            Append(tail, t), eng)
                         f == ProcessBuffer(FreshParser, Append(tail, t), eng)
                     IN /\ a.calls = f.calls /\ a.calls # <<>>
                        /\ a.nMessages = f.nMessages
                        /\ a.buf = <<>>
                        /\ a.msgs = r.msgs + f.msgs
                        /\ a.errs = r.errs + f.errs
                        /\ (eng.start = 0 /\ eng.send = 0) => a.nMessages = 1

\* the buffer is full of an unterminated message: the next ordinary byte
\* overflows it and the bytes after that form the tail
C40_Witness ==
    /\ m_nBufferPos = FUDI_MAX_MESSAGE_LEN - 1
    /\ lastByte.c \in LongBytes
    /\ lastByte.pos0 = FUDI_MAX_MESSAGE_LEN - 2
    /\ Counted = 0

-----------------------------------------------------------------------------
(* Claims on the ownership of backing handles, SpecFileFaults *)

\* the slots of the valid sessions that hold a handle
Holders(tab) == {i \in Slots : tab[i].bValid /\ tab[i].hFile # 0}

\* every FileClose of the calls, taken in order from the open handles
\* 'open', closes a handle that is open at that point
RECURSIVE ClosesOnlyOpen(_, _)
ClosesOnlyOpen(calls, open) ==
    IF calls = <<>> THEN TRUE
    ELSE LET c == Head(calls) IN
         CASE c[1] = "FileOpen" ->
                  ClosesOnlyOpen(Tail(calls), IF c[3] = 0 THEN open ELSE open \cup {c[3]})
           [] c[1] = "FileClose" ->
                  c[2] \in open /\ ClosesOnlyOpen(Tail(calls), open \ {c[2]})
           [] OTHER -> ClosesOnlyOpen(Tail(calls), open)

\* the results of every call the caller can make next
NextResults ==
    {barepd_open(s_FileTable, fsOpen, path, O_RDONLY, flt) :
         path \in FaultPaths, flt \in Faults}
    \cup {pd_fileio_close(s_FileTable, fsOpen, fd) : fd \in FaultFds}
    \cup {pd_fileio_lseek(s_FileTable, fsOpen, fd, a[2], a[1], flt) :
              fd \in FaultFds, a \in FaultSeeks, flt \in Faults}
    \cup {pd_fileio_stat(s_FileTable, fsOpen, path, flt) :
              path \in StatPaths, flt \in Faults}

\* C38: after any sequence of Open, Read, Seek, Close and Stat calls,
\* failing ones included, the handles open in the backing filesystem are
\* exactly those held by valid sessions, each by one session; and no call
\* closes a handle that is not open, so none leaks and none is closed twice.
C38_HandlesOwnedOrClosed ==
    /\ OpenHandles(fsOpen) = {s_FileTable[i].hFile : i \in Holders(s_FileTable)}
    /\ \A i, j \in Holders(s_FileTable) :
          s_FileTable[i].hFile = s_FileTable[j].hFile => i = j
    /\ \A r \in NextResults : ClosesOnlyOpen(r.calls, OpenHandles(fsOpen))

\* a Seek has closed and reopened the handle of one of two open sessions
C38_Witness ==
    /\ lastCall.op = "lseek"
    /\ lastCall.ret >= 0
    /\ lastCall.ret < lastCall.pos0
    /\ Cardinality(OpenHandles(fsOpen)) = 2
    /\ Cardinality(Holders(s_FileTable)) = 2

-----------------------------------------------------------------------------
(* Claims on the samples a refill writes, SpecAudio *)

\* the positions of the output scratch buffer an engine call of the chunk
\* filled, and those the chunk converted and wrote
FilledRange(c) == 1 .. c.nProduced

WrittenRange(c) == 1 .. c.nSamples

\* C36: every sample an I2S refill writes to the queue was produced by the
\* engine call of the same chunk: the samples converted and written lie
\* within the tickCount * blockSize * channels samples that call filled,
\* for every frame count, multiple of the block size or not.
C36_NoStaleSamples ==
    lastRefill.op \in {"Start", "Process"} =>
        \A k \in 1 .. Len(lastRefill.chunks) :
            WrittenRange(lastRefill.chunks[k]) \subseteq FilledRange(lastRefill.chunks[k])

-----------------------------------------------------------------------------
(* Claims on the capacity of the scratch buffers, SpecAudio *)

-----------------------------------------------------------------------------
(* SpecLoops: FillQueue, Seek and Open run one pass of their loop per      *)
(* step, each backend call returning: a read delivers bytes, reports the   *)
(* end of the file or fails; the queue takes a write or rejects it.  One   *)
(* session at a time is open on the short or on the long file.  A loop     *)
(* that has been entered keeps running (weak fairness on its passes).      *)

\* the passes a loop is followed for
MaxIter == 12

\* nFrames of FillQueue
FillRequests == {1, 256, 257, 600, 1000}

\* <<whence, offset>>
LoopSeeks ==
    IF IsBigCard THEN {<<0, 0>>, <<0, 1>>, <<0, 600>>, <<2, 0>>}
    ELSE {<<0, 0>>, <<0, 1>>, <<0, 2>>}

InLoop(pc, n, n0, h, slot) ==
    [pc |-> pc, n |-> n, n0 |-> n0, iter |-> 0, h |-> h, slot |-> slot, done |-> loop.done]

\* a MeasurePass that takes a read of 0 bytes for data
MeasurePass_IgnoreEOF(fo, h, nSize, err) ==
    [fo |-> FileRead(fo, h, SKIP_BUF_SIZE, err).fo,
     more |-> FileRead(fo, h, SKIP_BUF_SIZE, err).n # FS_ERROR,
     nSize |-> nSize]

\* one pass of the size-measuring loop of barepd_open
MeasurePass(fo, h, nSize, err) ==
    LET r == FileRead(fo, h, SKIP_BUF_SIZE, err)
        more == UGt(r.n, 0) /\ r.n # FS_ERROR
    IN [fo |-> r.fo, more |-> more, nSize |-> IF more THEN UAdd(nSize, r.n) ELSE nSize]

\* one pass of the discard-read loop of ReopenAndSeek and pd_fileio_lseek
SkipPass(fo, h, nToSkip, err) ==
    LET nChunk == IF UGt(nToSkip, SKIP_BUF_SIZE) THEN SKIP_BUF_SIZE ELSE nToSkip
        r == FileRead(fo, h, nChunk, err)
        brk == r.n = 0 \/ r.n = FS_ERROR
    IN [fo |-> r.fo, brk |-> brk, left |-> IF brk THEN nToSkip ELSE USub(nToSkip, r.n)]

\* FillQueue(nFrames) is entered
FillBegin(nFrames) ==
    /\ loop.pc = "idle"
    /\ queueAvail = 0
    /\ loop' = InLoop("fill", nFrames, nFrames, 0, -1)
    /\ UNCHANGED <<s_FileTable, fsFiles, fsOpen, lastCall, audioVars, fudiVars>>

\* while (nFrames > 0): one chunk is processed, written and taken off
FillPass(rejected) ==
    /\ loop.pc = "fill"
    /\ UGt(loop.n, 0)
    /\ loop.iter < MaxIter
    /\ LET c == I2SChunk(loop.n, nBlockSize, queueAvail, QueueSize, rejected) IN
       /\ loop' = [loop EXCEPT !.n = USub(@, c.req), !.iter = @ + 1]
       /\ queueAvail' = queueAvail + (c.nAccepted \div (OutChannels * BytesPerSample))
    /\ UNCHANGED <<s_FileTable, fsFiles, fsOpen, lastCall, m_nSampleRate, nBlockSize,
                   devActive, lastRefill, pwmRange, lastSample, fudiVars>>

\* nFrames is 0: FillQueue returns
FillEnd ==
    /\ loop.pc = "fill"
    /\ ~UGt(loop.n, 0)
    /\ loop' = NoLoop("fill", loop.n0, loop.iter)
    /\ UNCHANGED <<s_FileTable, fsFiles, fsOpen, lastCall, audioVars, fudiVars>>

\* the hardware has played the queue out
QueuePlayed ==
    /\ loop.pc = "idle"
    /\ queueAvail > 0
    /\ queueAvail' = 0
    /\ UNCHANGED <<s_FileTable, fsFiles, fsOpen, lastCall, loop, m_nSampleRate, nBlockSize,
                   devActive, lastRefill, pwmRange, lastSample, fudiVars>>

\* pd_fileio_lseek up to its discard-read loop: behind the offset the file
\* is closed and reopened and the loop skips to the target, ahead of it the
\* loop skips the difference.  n0 holds the target.
SeekBegin(fd, offset, whence) ==
    /\ loop.pc = "idle"
    /\ ~BadHandle(s_FileTable, fd)
    /\ LET slot == fd - FD_OFFSET
           e == s_FileTable[slot]
           nNewPos == ClampPos(SeekTarget(e, offset, whence), e.nSize)
           o == FileOpen(IF e.hFile # 0 THEN FileClose(fsOpen, e.hFile) ELSE fsOpen,
                         e.szPath, FALSE)
       IN IF ULt(nNewPos, e.nPosition)
          THEN /\ o.h # 0
               /\ s_FileTable' = [s_FileTable EXCEPT ![slot].hFile = o.h]
               /\ fsOpen' = o.fo
               /\ loop' = InLoop("skip", nNewPos, nNewPos, o.h, slot)
          ELSE /\ UGt(nNewPos, e.nPosition)
               /\ loop' = InLoop("skip", USub(nNewPos, e.nPosition), nNewPos, e.hFile, slot)
               /\ UNCHANGED <<s_FileTable, fsOpen>>
    /\ UNCHANGED <<fsFiles, lastCall, audioVars, fudiVars>>

\* while (nToSkip > 0): one read; the end of the file or an error leaves the
\* loop, and the offset is set to the target
SkipStep(err) ==
    /\ loop.pc = "skip"
    /\ loop.n # 0
    /\ loop.iter < MaxIter
    /\ LET p == SkipPass(fsOpen, loop.h, loop.n, err) IN
       /\ fsOpen' = p.fo
       /\ IF p.brk
          THEN /\ loop' = NoLoop("skip", loop.n0, loop.iter + 1)
               /\ s_FileTable' = [s_FileTable EXCEPT ![loop.slot].nPosition = loop.n0]
          ELSE /\ loop' = [loop EXCEPT !.n = p.left, !.iter = @ + 1]
               /\ UNCHANGED s_FileTable
    /\ UNCHANGED <<fsFiles, lastCall, audioVars, fudiVars>>

\* nToSkip is 0: the offset is set to the target
SkipEnd ==
    /\ loop.pc = "skip"
    /\ loop.n = 0
    /\ loop' = NoLoop("skip", loop.n0, loop.iter)
    /\ s_FileTable' = [s_FileTable EXCEPT ![loop.slot].nPosition = loop.n0]
    /\ UNCHANGED <<fsFiles, fsOpen, lastCall, audioVars, fudiVars>>

\* barepd_open up to its size-measuring loop: the path stored, the file
\* opened.  n holds nSize.
OpenBegin(path) ==
    /\ loop.pc = "idle"
    /\ path # NullPath
    /\ NormalizePath(path) # <<>>
    /\ FindFreeSlot(s_FileTable) >= 0
    /\ LET slot == FindFreeSlot(s_FileTable)
           o == FileOpen(fsOpen, NormalizePath(path), FALSE)
       IN /\ o.h # 0
          /\ s_FileTable' = [s_FileTable EXCEPT ![slot].szPath = StorePath(NormalizePath(path))]
          /\ fsOpen' = o.fo
          /\ loop' = InLoop("measure", 0, 0, o.h, slot)
    /\ UNCHANGED <<fsFiles, lastCall, audioVars, fudiVars>>

\* one read of the measuring loop; when it delivers nothing the file is
\* closed and opened again (under the path stored, which is whole here) and
\* the session is filled in
MeasureStep(err) ==
    /\ loop.pc = "measure"
    /\ loop.iter < MaxIter
    /\ LET p == MeasurePass(fsOpen, loop.h, loop.n, err)
           o == FileOpen(FileClose(p.fo, loop.h), s_FileTable[loop.slot].szPath, FALSE)
       IN IF p.more
          THEN /\ loop' = [loop EXCEPT !.n = p.nSize, !.iter = @ + 1]
               /\ fsOpen' = p.fo
               /\ UNCHANGED s_FileTable
          ELSE /\ loop' = NoLoop("measure", loop.n, loop.iter + 1)
               /\ fsOpen' = o.fo
               /\ s_FileTable' =
                      IF o.h = 0 THEN s_FileTable
                      ELSE [s_FileTable EXCEPT ![loop.slot].hFile = o.h,
                                               ![loop.slot].nSize = p.nSize,
                                               ![loop.slot].nPosition = 0,
                                               ![loop.slot].bValid = TRUE]
    /\ UNCHANGED <<fsFiles, lastCall, audioVars, fudiVars>>

\* the passes of the loops
LoopPass ==
    \/ \E rejected \in BOOLEAN : FillPass(rejected)
    \/ FillEnd
    \/ \E err \in BOOLEAN : SkipStep(err)
    \/ SkipEnd
    \/ \E err \in BOOLEAN : MeasureStep(err)

NextLoops ==
    \/ \E nFrames \in FillRequests : FillBegin(nFrames)
    \/ \E a \in LoopSeeks : SeekBegin(FD_OFFSET, a[2], a[1])
    \/ \E path \in OpenPaths :
          /\ NumValid(s_FileTable) = 0
          /\ OpenBegin(path)
    \/ loop.pc = "idle" /\ Close(FD_OFFSET)
    \/ QueuePlayed
    \/ LoopPass

SpecLoops == InitFile /\ [][NextLoops]_vars /\ WF_vars(LoopPass)

\* the passes FillQueue(n) makes: n / 256 rounded up
FillPasses(n) == (n + FramesPerWrite - 1) \div FramesPerWrite

\* a pass that stays in its loop: the count left of a fill or a skip
\* strictly decreases, the size measured strictly increases
LoopProgress ==
    (loop.pc # "idle" /\ loop'.pc = loop.pc /\ loop' # loop) =>
        IF loop.pc = "measure" THEN UGt(loop'.n, loop.n) ELSE ULt(loop'.n, loop.n)

\* C35: every refill, Seek and Open ends, each backend call returning: a
\* loop entered is left again; FillQueue(n) ends after n / 256 passes,
\* rounded up; each pass of a discard-read loop lowers the count left, or
\* the read reports the end of the file or an error and the loop is left,
\* and so for the size-measuring loop.
C35_LoopsTerminate ==
    /\ [][LoopProgress]_vars
    /\ [](loop.done = "fill" /\ loop.pc = "idle" => loop.iter = FillPasses(loop.n0))
    /\ (loop.pc # "idle") ~> (loop.pc = "idle")

\* a backward Seek into the long file has ended after three discard-reads
C35_Witness ==
    /\ loop.pc = "idle"
    /\ loop.done = "skip"
    /\ loop.iter = 3
    /\ loop.n0 = BigSize

====
